---------------------------- MODULE Spec2Model ----------------------------
(***************************************************************************)
(* Model of the strategy execution engine of quantimizer                   *)
(* (backend/app/services/strategy_execution.py, ml_inference.py).          *)
(*                                                                         *)
(* Numbers.  A float is modelled as an exact rational <<n, d>> in lowest   *)
(* terms with d > 0; the float NaN (a missing price, a missing market cap) *)
(* is <<0, 0>>.  NaN propagates through + * / and every comparison with    *)
(* NaN is false, as in IEEE arithmetic.  Rounding error is not modelled.   *)
(*                                                                         *)
(* Dates are day numbers of one calendar year (31 = Jan 31, 32 = Feb 1).   *)
(***************************************************************************)
EXTENDS Integers, Sequences, FiniteSets, TLC

VARIABLES
    pc,             \* position of the running call (the step to take next)
    err,            \* class of the exception that ended the call ("none": none)
    request,        \* arguments of execute_strategy: [start_before_end, strategy_json]
    db_model,       \* the MLModel row the strategy refers to, and its artifact
    spec,           \* StrategySpec returned by parse_strategy
    sql,            \* request built by _build_scored_sql
    ml_session,     \* "none" or "session"
    universe_scored,\* frame returned by the data provider
    ranked,         \* frame returned by _apply_ml_and_rank
    metrics,
    persisted,      \* records handed to _persist_backtest, in order
    stored,         \* records of this call that db.commit() has written
    stages,         \* steps of execute_strategy completed so far, in order
    prices,         \* price matrix: [idx, cols, px]
    allocations,    \* dict rebalance date -> allocation frame (rows)
    alloc_order,    \* keys of allocations in the order of their insertion
    initial_capital,
    tplus1_allocs,  \* dict effective date -> rebalance date whose frame is stored
    mapped,         \* number of keys of allocations the first loop has handled
    current_shares, \* dict ticker -> share count
    capital,
    equity_curve,   \* sequence of [date, equity], in insertion order
    dayPos,         \* number of pricing dates the daily loop has handled
    heldFrom,       \* rebalance date whose allocation produced current_shares (0: none)
    basis,          \* per equity point: heldFrom when the point was computed
    tuning_logs,    \* rows of db_tuning_logs, in insertion order (id: position)
    pg_settings,    \* server parameters: name -> setting
    restores,       \* calls of restore_db_configuration, in order of their start
    applies,        \* calls of apply_db_configuration, in order of their start
    strategies,     \* rows of the strategies table, as committed (id: position)
    response,       \* outcome of the last call of the strategy service that ended
    handlers,       \* calls of the strategy service that have not answered yet
    started         \* number of calls of the strategy service so far

simVars == <<prices, allocations, alloc_order, initial_capital, tplus1_allocs, mapped,
             current_shares, capital, equity_curve, dayPos, heldFrom, basis>>

apiVars == <<tuning_logs, pg_settings, restores, applies, strategies, response,
             handlers, started>>

pipeVars == <<err, request, db_model, spec, sql, apiVars, ml_session, universe_scored, ranked,
              metrics, persisted, stored, stages>>

vars == <<pc, simVars, pipeVars>>

-----------------------------------------------------------------------------
(* Bounds of the model *)

MaxPrice == 1
MaxClose == 1
MaxTopN == 2
MaxMl == 1
MaxCap == 1
Tickers == {"A", "B"}
\* Jan 31, Feb 28, Apr 1: three months, two quarters, uneven gaps
Days == {31, 59, 91}

-----------------------------------------------------------------------------
(* Float arithmetic *)

NaN == <<0, 0>>
IsNaN(x) == x[2] = 0
Abs(i) == IF i < 0 THEN -i ELSE i

RECURSIVE GCD(_, _)
GCD(a, b) == IF b = 0 THEN a ELSE GCD(b, a % b)

Norm(n, d) ==
    IF d = 0 THEN NaN
    ELSE LET s == IF d < 0 THEN -1 ELSE 1
             g == GCD(Abs(n), Abs(d))
         IN  <<(s * n) \div g, (s * d) \div g>>

Rat(i) == <<i, 1>>
Frac(n, d) == Norm(n, d)

RAdd(x, y) == IF IsNaN(x) \/ IsNaN(y) THEN NaN
              ELSE Norm(x[1] * y[2] + y[1] * x[2], x[2] * y[2])
RMul(x, y) == IF IsNaN(x) \/ IsNaN(y) THEN NaN
              ELSE Norm(x[1] * y[1], x[2] * y[2])
RDiv(x, y) == IF IsNaN(x) \/ IsNaN(y) \/ y[1] = 0 THEN NaN
              ELSE Norm(x[1] * y[2], x[2] * y[1])
RLe(x, y) == ~IsNaN(x) /\ ~IsNaN(y) /\ x[1] * y[2] <= y[1] * x[2]
RLt(x, y) == ~IsNaN(x) /\ ~IsNaN(y) /\ x[1] * y[2] < y[1] * x[2]
REq(x, y) == ~IsNaN(x) /\ ~IsNaN(y) /\ x = y
RMax(x, y) == IF RLt(x, y) THEN y ELSE x

\* Python's sum() over a generator of floats: NaN propagates.
RECURSIVE RSumSet(_, _)
RSumSet(S, f) ==
    IF S = {} THEN Rat(0)
    ELSE LET t == CHOOSE t \in S : TRUE
         IN  RAdd(f[t], RSumSet(S \ {t}, f))

-----------------------------------------------------------------------------
(* Sequences of dates *)

RECURSIVE SortedSeq(_)
SortedSeq(S) ==
    IF S = {} THEN <<>>
    ELSE LET m == CHOOSE m \in S : \A x \in S : m <= x
         IN  <<m>> \o SortedSeq(S \ {m})

Range(s) == {s[i] : i \in 1..Len(s)}

-----------------------------------------------------------------------------
(* _simulate_equity_curve_Tplus1 *)

\* idx.get_indexer([d], method="nearest") for an increasing index, 1-based;
\* 0 stands for pandas' -1.  Distances to position -1 are taken to the last
\* element, as numpy indexing does; equal distances prefer the right neighbour.
NearestPos(idx, d) ==
    IF Len(idx) = 0 THEN 0
    ELSE LET left  == IF \E i \in 1..Len(idx) : idx[i] <= d
                      THEN CHOOSE i \in 1..Len(idx) :
                             idx[i] <= d /\ \A j \in 1..Len(idx) : idx[j] <= d => j <= i
                      ELSE 0
             right == IF \E i \in 1..Len(idx) : idx[i] >= d
                      THEN CHOOSE i \in 1..Len(idx) :
                             idx[i] >= d /\ \A j \in 1..Len(idx) : idx[j] >= d => i <= j
                      ELSE 0
             at(p) == IF p = 0 THEN idx[Len(idx)] ELSE idx[p]
             ld    == Abs(d - at(left))
             rd    == Abs(d - at(right))
         IN  IF ld < rd \/ right = 0 THEN left ELSE right

\* Variant: the allocation takes effect on the nearest date itself.
EffectivePosSameDay(idx, d) ==
    LET pos == NearestPos(idx, d)
    IN  IF pos >= 1 /\ pos + 1 <= Len(idx) THEN pos ELSE 0

\* Variant: an allocation with no following date is applied on the last date.
EffectivePosClamped(idx, d) ==
    LET pos == NearestPos(idx, d)
    IN  IF pos >= 1 /\ pos + 1 <= Len(idx) THEN pos + 1 ELSE pos

\* The position whose date receives the allocation decided on d (0: none).
EffectivePos(idx, d) ==
    LET pos == NearestPos(idx, d)
    IN  IF pos >= 1 /\ pos + 1 <= Len(idx) THEN pos + 1 ELSE 0

\* One iteration of "for d in allocations.keys()".
MapOne(idx, tp, d) ==
    LET e == EffectivePos(idx, d)
    IN  IF e = 0 THEN tp
        ELSE [t \in DOMAIN tp \cup {idx[e]} |-> IF t = idx[e] THEN d ELSE tp[t]]

RECURSIVE MapAll(_, _, _)
MapAll(idx, keys, n) ==
    IF n = 0 THEN <<>> ELSE MapOne(idx, MapAll(idx, keys, n - 1), keys[n])

\* price_row.get(t, np.nan)
PriceAt(pm, d, t) == IF t \in pm.cols THEN pm.px[d][t] ELSE NaN

\* sum(current_shares.get(t, 0.0) * price_row.get(t, np.nan) for t in current_shares)
MarkToMarket(shares, pm, d) ==
    RSumSet(DOMAIN shares, [t \in DOMAIN shares |-> RMul(shares[t], PriceAt(pm, d, t))])

\* Rows of the snapshot that survive dropna(subset=["price"]).
ValidRows(snap, pm, d) ==
    {i \in 1..Len(snap) : ~IsNaN(PriceAt(pm, d, snap[i].ticker))}

\* Variant: rows are entered whatever their weight.
EnteredRowsAnyWeight(snap, pm, d) ==
    {i \in ValidRows(snap, pm, d) : ~RLe(PriceAt(pm, d, snap[i].ticker), Rat(0))}

\* Rows that receive shares: not (price <= 0.0 or weight <= 0.0).
EnteredRows(snap, pm, d) ==
    {i \in ValidRows(snap, pm, d) :
        ~(RLe(PriceAt(pm, d, snap[i].ticker), Rat(0)) \/ RLe(snap[i].target_weight, Rat(0)))}

\* The holdings after the re-entry at date d with available capital cap.
Reenter(snap, pm, d, cap) ==
    LET rows == EnteredRows(snap, pm, d)
        tks  == {snap[i].ticker : i \in rows}
        rowOf(t) == CHOOSE i \in rows : snap[i].ticker = t
                    /\ \A j \in rows : snap[j].ticker = t => j <= i
    IN  IF tks = {} THEN <<>>
        ELSE [t \in tks |->
                RDiv(RMul(cap, snap[rowOf(t)].target_weight), PriceAt(pm, d, t))]

\* Variant: positions are marked to market even when nothing is held.
DayStepNoGuard(st, pm, allocs, tp, d) ==
    LET cap == MarkToMarket(st.shares, pm, d)
        reb == d \in DOMAIN tp /\ ValidRows(allocs[tp[d]], pm, d) # {}
    IN  [shares  |-> IF reb THEN Reenter(allocs[tp[d]], pm, d, cap) ELSE st.shares,
         capital |-> cap,
         from    |-> IF reb THEN tp[d] ELSE st.from]

\* Variant: a position whose price is missing on a date is dropped on that date.
DayStepDropsUnpriced(st, pm, allocs, tp, d) ==
    LET cap  == IF DOMAIN st.shares # {} THEN MarkToMarket(st.shares, pm, d)
                ELSE st.capital
        reb  == d \in DOMAIN tp /\ ValidRows(allocs[tp[d]], pm, d) # {}
        kept == {t \in DOMAIN st.shares : ~IsNaN(PriceAt(pm, d, t))}
    IN  [shares  |-> IF reb THEN Reenter(allocs[tp[d]], pm, d, cap)
                     ELSE [t \in kept |-> st.shares[t]],
         capital |-> cap,
         from    |-> IF reb THEN tp[d] ELSE st.from]

\* One iteration of "for current_date in idx"; st = [shares, capital, from].
DayStep(st, pm, allocs, tp, d) ==
    LET cap == IF DOMAIN st.shares # {} THEN MarkToMarket(st.shares, pm, d)
               ELSE st.capital
        reb == d \in DOMAIN tp /\ ValidRows(allocs[tp[d]], pm, d) # {}
    IN  [shares  |-> IF reb THEN Reenter(allocs[tp[d]], pm, d, cap) ELSE st.shares,
         capital |-> cap,
         from    |-> IF reb THEN tp[d] ELSE st.from]

\* The daily loop from position i to position k, started with locals st; curve
\* and held collect the equity and the holdings left by each date.
RECURSIVE SimFrom(_, _, _, _, _, _)
SimFrom(pm, allocs, tp, st, i, k) ==
    IF i > k THEN st
    ELSE LET nx == DayStep(st, pm, allocs, tp, pm.idx[i])
         IN  SimFrom(pm, allocs, tp,
                     [shares |-> nx.shares, capital |-> nx.capital, from |-> nx.from,
                      curve |-> Append(st.curve, [date |-> pm.idx[i], equity |-> nx.capital]),
                      held |-> Append(st.held, nx.shares)],
                     i + 1, k)

\* allocs.keys() for a dict allocs that holds keys of allocations: a dict iterates
\* in the order of insertion.
KeyOrder(allocs) == SelectSeq(alloc_order, LAMBDA d : d \in DOMAIN allocs)

\* The simulator's locals after the daily loop has handled the first k dates.
SimState(pm, allocs, cap0, k) ==
    LET keys == KeyOrder(allocs)
    IN  SimFrom(pm, allocs, MapAll(pm.idx, keys, Len(keys)),
                [shares |-> <<>>, capital |-> cap0, from |-> 0, curve |-> <<>>, held |-> <<>>],
                1, k)

\* The returned equity_curve.
SimulateEquityCurve(pm, allocs, cap0) == SimState(pm, allocs, cap0, Len(pm.idx)).curve

-----------------------------------------------------------------------------
(* Scored frames: sets of rows
   [event_date, ticker, close_price, market_cap, final_score],
   one row per (event_date, ticker) *)

FrameDates(frame) == {r.event_date : r \in frame}

MonthEnds == <<31, 59, 90, 120, 151, 181, 212, 243, 273, 304, 334, 365>>

\* dt.to_period("M") / dt.to_period("Q") within one year
Month(d) == CHOOSE m \in 1..12 : d <= MonthEnds[m] /\ (m = 1 \/ d > MonthEnds[m - 1])
Period(d, frequency) ==
    IF frequency = "monthly" THEN Month(d) ELSE ((Month(d) - 1) \div 3) + 1

\* Variant: the earliest date present in each period.
DetermineRebalancingDatesFirst(frame, frequency) ==
    SortedSeq({d \in FrameDates(frame) :
                  \A e \in FrameDates(frame) :
                      Period(e, frequency) = Period(d, frequency) => d <= e})

\* _determine_rebalancing_dates: the latest date present in each period
DetermineRebalancingDates(frame, frequency) ==
    SortedSeq({d \in FrameDates(frame) :
                  \A e \in FrameDates(frame) :
                      Period(e, frequency) = Period(d, frequency) => e <= d})

RECURSIVE Perms(_)
Perms(S) ==
    IF S = {} THEN {<<>>}
    ELSE UNION { {<<x>> \o q : q \in Perms(S \ {x})} : x \in S }

\* Variant: ascending order.
SortsBeforeAscending(a, b) == (~IsNaN(a) /\ IsNaN(b)) \/ RLt(a, b)

\* a sorts strictly before b when sorting descending with NaN last
SortsBefore(a, b) == (~IsNaN(a) /\ IsNaN(b)) \/ RLt(b, a)

\* sort_values("final_score", ascending=False): every order the (unstable)
\* sort may return; rows of equal score come in any order.
SortedByScore(rows) ==
    {q \in Perms(rows) :
        \A i, j \in 1..Len(q) : i < j => ~SortsBefore(q[j].final_score, q[i].final_score)}

HeadSeq(q, n) == SubSeq(q, 1, IF n < Len(q) THEN n ELSE Len(q))

\* .astype(float).clip(lower=0.0): NaN stays NaN
ClipCap(c) == IF IsNaN(c) THEN NaN ELSE IF RLt(c, Rat(0)) THEN Rat(0) ELSE c

\* Series.sum(): NaN entries are skipped
RECURSIVE SumSkipNa(_, _)
SumSkipNa(q, n) ==
    IF n = 0 THEN Rat(0)
    ELSE IF IsNaN(q[n]) THEN SumSkipNa(q, n - 1)
    ELSE RAdd(q[n], SumSkipNa(q, n - 1))

Row(t, w) == [ticker |-> t, target_weight |-> w]

\* Variant: market-cap weighting without the fallback to equal weights.
TargetWeightsNoFallback(sel, weight_method) ==
    LET n    == Len(sel)
        caps == [i \in 1..n |-> ClipCap(sel[i].market_cap)]
        s    == SumSkipNa(caps, n)
    IN  IF weight_method = "equal"
        THEN [i \in 1..n |-> Row(sel[i].ticker, Frac(1, n))]
        ELSE [i \in 1..n |-> Row(sel[i].ticker, RDiv(caps[i], s))]

\* The [ticker, target_weight] frame of one rebalance date.
TargetWeights(sel, weight_method) ==
    LET n    == Len(sel)
        caps == [i \in 1..n |-> ClipCap(sel[i].market_cap)]
        s    == SumSkipNa(caps, n)
    IN  IF weight_method = "equal" \/ RLe(s, Rat(0))
        THEN [i \in 1..n |-> Row(sel[i].ticker, Frac(1, n))]
        ELSE [i \in 1..n |-> Row(sel[i].ticker, RDiv(caps[i], s))]

\* The frames _build_allocations may store for rebalance date d.
AllocationsFor(scored, d, top_n, weight_method) ==
    {TargetWeights(HeadSeq(q, top_n), weight_method) :
        q \in SortedByScore({r \in scored : r.event_date = d})}

\* Variant: a rebalance date none of whose rows has a score gets no allocation.
RECURSIVE AllocationsUpToScoredOnly(_, _, _, _, _)
AllocationsUpToScoredOnly(scored, rd, n, top_n, weight_method) ==
    IF n = 0 THEN {<<>>}
    ELSE IF \A r \in scored : r.event_date = rd[n] => IsNaN(r.final_score)
    THEN AllocationsUpToScoredOnly(scored, rd, n - 1, top_n, weight_method)
    ELSE {a @@ (rd[n] :> x) :
            a \in AllocationsUpToScoredOnly(scored, rd, n - 1, top_n, weight_method),
            x \in AllocationsFor(scored, rd[n], top_n, weight_method)}

\* The dicts the loop over the first n rebalance dates may have built.
RECURSIVE AllocationsUpTo(_, _, _, _, _)
AllocationsUpTo(scored, rd, n, top_n, weight_method) ==
    IF n = 0 THEN {<<>>}
    ELSE {a @@ (rd[n] :> x) :
            a \in AllocationsUpTo(scored, rd, n - 1, top_n, weight_method),
            x \in AllocationsFor(scored, rd[n], top_n, weight_method)}

\* _build_allocations: every dict it may return (the empty dict makes it raise).
BuildAllocations(scored, top_n, weight_method, frequency) ==
    LET rd == DetermineRebalancingDates(scored, frequency)
    IN  AllocationsUpTo(scored, rd, Len(rd), top_n, weight_method)

-----------------------------------------------------------------------------
(* _prepare_price_matrix *)

\* pivot_table(aggfunc="last") keeps the (date, ticker) cells with a price.
Priced(frame) == {r \in frame : ~IsNaN(r.close_price)}

\* .fillna(method="ffill"): the last price of t at or before d, else NaN
FilledPrice(frame, d, t) ==
    LET c == {r \in Priced(frame) : r.ticker = t /\ r.event_date <= d}
    IN  IF c = {} THEN NaN
        ELSE (CHOOSE r \in c : \A o \in c : o.event_date <= r.event_date).close_price

PreparePriceMatrix(frame) ==
    LET ds == FrameDates(Priced(frame))
        ts == {r.ticker : r \in Priced(frame)}
    IN  [idx  |-> SortedSeq(ds),
         cols |-> ts,
         px   |-> [d \in ds |-> [t \in ts |-> FilledPrice(frame, d, t)]]]

-----------------------------------------------------------------------------
(* Inputs of a direct call of the simulator *)

PriceVals == {NaN} \cup {Rat(p) : p \in 0..MaxPrice}

\* Allocation frames of the shapes _build_allocations returns.
SimSnaps ==
    { <<Row("B", Rat(1))>>,
      <<Row("A", Frac(1, 2)), Row("B", Frac(1, 2))>>,
      <<Row("A", Rat(1)), Row("B", Rat(0))>> }

PriceMatrices ==
    UNION { { [idx |-> SortedSeq(S), cols |-> Tickers, px |-> f] :
                f \in [S -> [Tickers -> PriceVals]] } : S \in SUBSET Days }

AllocationMaps ==
    UNION { [K -> SimSnaps] : K \in SUBSET Days }

\* allocations.keys(): the keys in the order of their insertion
AllocKeys == alloc_order

NoSpec == [factors |-> <<>>, top_n |-> 0, weight_method |-> "", frequency |-> ""]
NoPrices == [idx |-> <<>>, cols |-> {}, px |-> <<>>]
NoMetrics == [total_return |-> Rat(0), cagr |-> Rat(0), volatility |-> Rat(0),
              sharpe |-> Rat(0), max_drawdown |-> Rat(0)]
NoRequest == [start_before_end |-> TRUE, strategy_json |-> NoSpec]
NoSql == [join |-> FALSE, aggs |-> <<>>, item_filters |-> {}, fin_cols |-> {}, z_terms |-> <<>>]

\* Rows of pg_settings the model keeps, and their settings before any tuning.
KnownParams == {"work_mem"}
DefaultSettings == [k \in KnownParams |-> "4MB"]

\* Handlers of the strategy service that can be at work at once, and one that is not.
MaxHandlers == 2
Idle == [pc |-> "idle"]

\* No call of the strategy service has ended yet.
NoResponse == [op |-> "none", id |-> 0, input |-> <<>>, status |-> 0]

\* State of the admin tables and of the strategies table before any call.
ApiIdle ==
    /\ tuning_logs = <<>>
    /\ pg_settings = DefaultSettings
    /\ restores = <<>>
    /\ applies = <<>>
    /\ strategies = <<>>
    /\ response = NoResponse
    /\ handlers = [h \in 1..MaxHandlers |-> Idle]
    /\ started = 0

\* State of the variables of execute_strategy while it is not running.
PipeIdle ==
    /\ err = "none"
    /\ request = NoRequest
    /\ sql = NoSql
    /\ ApiIdle
    /\ db_model = "absent"
    /\ spec = NoSpec
    /\ ml_session = "none"
    /\ universe_scored = {}
    /\ ranked = {}
    /\ metrics = NoMetrics
    /\ persisted = <<>>
    /\ stored = <<>>
    /\ stages = <<>>

\* State of the simulator's locals before it runs.
SimIdle ==
    /\ tplus1_allocs = <<>>
    /\ mapped = 0
    /\ current_shares = <<>>
    /\ capital = initial_capital
    /\ equity_curve = <<>>
    /\ dayPos = 0
    /\ heldFrom = 0
    /\ basis = <<>>

InitSim ==
    /\ pc = "map"
    /\ prices \in PriceMatrices
    /\ allocations \in AllocationMaps
    /\ alloc_order \in Perms(DOMAIN allocations)
    /\ initial_capital = Rat(1)
    /\ tplus1_allocs = <<>>
    /\ mapped = 0
    /\ current_shares = <<>>
    /\ capital = initial_capital
    /\ equity_curve = <<>>
    /\ dayPos = 0
    /\ heldFrom = 0
    /\ basis = <<>>
    /\ PipeIdle

\* for d in allocations.keys(): ...
MapAlloc ==
    /\ pc = "map"
    /\ mapped < Len(AllocKeys)
    /\ tplus1_allocs' = MapOne(prices.idx, tplus1_allocs, AllocKeys[mapped + 1])
    /\ mapped' = mapped + 1
    /\ UNCHANGED <<pc, prices, allocations, alloc_order, initial_capital, current_shares,
                   capital, equity_curve, dayPos, heldFrom, basis, pipeVars>>

MapDone ==
    /\ pc = "map"
    /\ mapped = Len(AllocKeys)
    /\ pc' = "loop"
    /\ UNCHANGED <<simVars, pipeVars>>

\* for current_date in idx: ...
SimulateDay ==
    /\ pc = "loop"
    /\ dayPos < Len(prices.idx)
    /\ LET d  == prices.idx[dayPos + 1]
           st == DayStep([shares |-> current_shares, capital |-> capital, from |-> heldFrom],
                         prices, allocations, tplus1_allocs, d)
       IN  /\ capital' = st.capital
           /\ equity_curve' = Append(equity_curve, [date |-> d, equity |-> st.capital])
           /\ basis' = Append(basis, heldFrom)
           /\ current_shares' = st.shares
           /\ heldFrom' = st.from
    /\ dayPos' = dayPos + 1
    /\ UNCHANGED <<pc, prices, allocations, alloc_order, initial_capital, tplus1_allocs, mapped,
                   pipeVars>>

SimReturn ==
    /\ pc = "loop"
    /\ dayPos = Len(prices.idx)
    /\ pc' = "simulated"
    /\ UNCHANGED <<simVars, pipeVars>>

NextSim == MapAlloc \/ MapDone \/ SimulateDay \/ SimReturn

SimSpec == InitSim /\ [][NextSim]_vars

-----------------------------------------------------------------------------
(* parse_strategy, on the fields the execution uses *)

FACTOR_COLUMN_MAP ==
    {"PCTCHANGE", "RSI_14", "MA_20D", "MOMENTUM_3M", "MOMENTUM_12M", "VOLATILITY_20D",
     "MARKETCAP", "PER", "PBR", "EPS", "BPS", "DIVIDENDYIELD", "ROE", "ROA", "OPM",
     "GPM", "DEBTTOEQUITY", "CURRENTRATIO", "ASSETTURNOVER", "INTERESTCOVERAGE"}
VALID_DIRECTIONS == {"asc", "desc"}
VALID_WEIGHT_METHODS == {"equal", "market_cap"}
VALID_FREQUENCIES == {"monthly", "quarterly"}

Factor(n, dir, w, m) == [name |-> n, direction |-> dir, weight |-> w, model_id |-> m]

\* The message of the StrategyExecutionError parse_strategy raises ("": none).
ParseError(json) ==
    LET fs  == json.factors
        bad(f) == \/ (f.name # "ML_MODEL" /\ f.name \notin FACTOR_COLUMN_MAP)
                  \/ f.direction \notin VALID_DIRECTIONS
                  \/ (f.name = "ML_MODEL" /\ f.model_id = "")
    IN  IF fs = <<>> THEN "At least one factor must be supplied"
        ELSE IF \E i \in 1..Len(fs) : bad(fs[i])
        THEN LET i == CHOOSE i \in 1..Len(fs) : bad(fs[i]) /\ \A j \in 1..(i - 1) : ~bad(fs[j])
             IN  IF fs[i].name # "ML_MODEL" /\ fs[i].name \notin FACTOR_COLUMN_MAP
                 THEN "Unsupported factor"
                 ELSE IF fs[i].direction \notin VALID_DIRECTIONS
                 THEN "Unsupported factor direction"
                 ELSE "ML_MODEL factor requires a model_id"
        ELSE IF json.top_n <= 0 THEN "portfolio.top_n must be positive"
        ELSE IF json.weight_method \notin VALID_WEIGHT_METHODS THEN "Unsupported weight method"
        ELSE IF json.frequency \notin VALID_FREQUENCIES THEN "Unsupported rebalancing frequency"
        ELSE ""

ParseStrategy(json) ==
    [factors |-> json.factors, top_n |-> json.top_n,
     weight_method |-> json.weight_method, frequency |-> json.frequency]

-----------------------------------------------------------------------------
(* parse_strategy on raw JSON definitions *)

VALID_MARKETS == {"ALL", "KOSPI", "KOSDAQ"}

\* A JSON value: a missing key, null, an integer, a float, a string or a list.
JAbsent   == [kind |-> "absent", num |-> NaN, text |-> ""]
JNull     == [kind |-> "null", num |-> NaN, text |-> ""]
JInt(i)   == [kind |-> "int", num |-> Rat(i), text |-> ""]
JFloat(x) == [kind |-> "float", num |-> x, text |-> ""]
JStr(s)   == [kind |-> "str", num |-> NaN, text |-> s]
JList     == [kind |-> "list", num |-> NaN, text |-> ""]

\* dict.get(key, default): the default only for a missing key
GetOr(v, default) == IF v.kind = "absent" THEN default ELSE v

\* str.upper() and str.lower() on the strings of the model
Upper(s) ==
    CASE s = "kospi" -> "KOSPI"
      [] s = "all"   -> "ALL"
      [] s = "per"   -> "PER"
      [] s = "nyse"  -> "NYSE"
      [] OTHER       -> s

Lower(s) ==
    CASE s = "EQUAL"   -> "equal"
      [] s = "Monthly" -> "monthly"
      [] s = "ASC"     -> "asc"
      [] OTHER         -> s

\* str(v) of a JSON value, on the values of the model
StrOf(v) ==
    CASE v.kind = "str"  -> v.text
      [] v.kind = "null" -> "None"
      [] v.kind = "list" -> "[]"
      [] OTHER           -> "number"

\* The decimal strings of the model and the numbers they denote.
NumberOfText(s) ==
    CASE s = "5"   -> Rat(5)
      [] s = "-1"  -> Rat(-1)
      [] s = "2.5" -> Frac(5, 2)
      [] OTHER     -> NaN

IsIntegerText(s) == s \in {"5", "-1"}
IsFloatText(s) == s \in {"5", "-1", "2.5", "nan"}

\* float(v): [exc, val]
ToFloat(v) ==
    CASE v.kind \in {"int", "float"} -> [exc |-> "none", val |-> v.num]
      [] v.kind = "str" ->
            IF IsFloatText(v.text) THEN [exc |-> "none", val |-> NumberOfText(v.text)]
            ELSE [exc |-> "ValueError", val |-> NaN]
      [] OTHER -> [exc |-> "TypeError", val |-> NaN]

\* Truncation toward zero of a rational.
Trunc(x) == IF x[1] < 0 THEN -((-x[1]) \div x[2]) ELSE x[1] \div x[2]

\* int(v): [exc, val]
ToInt(v) ==
    CASE v.kind = "int" -> [exc |-> "none", val |-> v.num[1]]
      [] v.kind = "float" ->
            IF IsNaN(v.num) THEN [exc |-> "ValueError", val |-> 0]
            ELSE [exc |-> "none", val |-> Trunc(v.num)]
      [] v.kind = "str" ->
            IF IsIntegerText(v.text) THEN [exc |-> "none", val |-> NumberOfText(v.text)[1]]
            ELSE [exc |-> "ValueError", val |-> 0]
      [] OTHER -> [exc |-> "TypeError", val |-> 0]

\* The strings uuid.UUID accepts.
ValidUuids == {"m1"}

NoMinCap == [kind |-> "none", num |-> NaN]
MinCap(x) == [kind |-> "float", num |-> x]

Raised(exc, msg) == [exc |-> exc, msg |-> msg, spec |-> NoSpec]

\* The first exception the loop over facs_raw raises ("" when it completes).
FactorError(f) ==
    IF f.name # "ML_MODEL" /\ f.name \notin FACTOR_COLUMN_MAP THEN "Unsupported factor"
    ELSE IF f.direction \notin VALID_DIRECTIONS THEN "Unsupported factor direction"
    ELSE IF f.name = "ML_MODEL" /\ f.model_id = "" THEN "ML_MODEL factor requires a model_id"
    ELSE IF f.name = "ML_MODEL" /\ f.model_id \notin ValidUuids THEN "Invalid ML model UUID"
    ELSE ""

\* name = str(...).upper().replace(" ", ""); direction = str(...).lower()
NormFactor(f) == [f EXCEPT !.name = Upper(f.name), !.direction = Lower(f.direction)]

\* parse_strategy(strategy_json): the exception it raises ("none": it returns)
\* with its message, and the StrategySpec it returns.
parse_strategy(definition) ==
    LET market == Upper(StrOf(GetOr(definition.market, JStr("ALL"))))
        mmc    == definition.min_market_cap
        mmcF   == ToFloat(mmc)
        facs   == [i \in 1..Len(definition.factors) |-> NormFactor(definition.factors[i])]
        badFac == {i \in 1..Len(facs) : FactorError(facs[i]) # ""}
        topN   == ToInt(GetOr(definition.top_n, JInt(30)))
        wm     == Lower(definition.weight_method)
        freq   == Lower(definition.frequency)
    IN  IF market \notin VALID_MARKETS
        THEN Raised("StrategyExecutionError", "Unsupported market")
        ELSE IF mmc.kind \notin {"absent", "null"} /\ mmcF.exc # "none"
        THEN Raised("StrategyExecutionError", "min_market_cap must be numeric")
        ELSE IF facs = <<>>
        THEN Raised("StrategyExecutionError", "At least one factor must be supplied")
        ELSE IF badFac # {}
        THEN Raised("StrategyExecutionError",
                    FactorError(facs[CHOOSE i \in badFac : \A j \in badFac : i <= j]))
        ELSE IF topN.exc # "none"
        THEN Raised(topN.exc, "int()")
        ELSE IF topN.val <= 0
        THEN Raised("StrategyExecutionError", "portfolio.top_n must be positive")
        ELSE IF wm \notin VALID_WEIGHT_METHODS
        THEN Raised("StrategyExecutionError", "Unsupported weight method")
        ELSE IF freq \notin VALID_FREQUENCIES
        THEN Raised("StrategyExecutionError", "Unsupported rebalancing frequency")
        ELSE [exc  |-> "none",
              msg  |-> "",
              spec |-> [market         |-> market,
                        min_market_cap |-> IF mmc.kind \in {"absent", "null"} THEN NoMinCap
                                           ELSE MinCap(mmcF.val),
                        factors        |-> facs,
                        top_n          |-> topN.val,
                        weight_method  |-> wm,
                        frequency      |-> freq]]

\* Definitions handed to parse_strategy.
RawMarkets == {JAbsent, JStr("kospi"), JStr("nyse")}
RawMinCaps ==
    {JAbsent, JNull, JInt(0), JInt(1), JInt(-1), JFloat(Frac(-1, 2)), JStr("5"),
     JStr("-1"), JStr("nan"), JStr("abc"), JList}
RawTopNs ==
    {JAbsent, JNull, JInt(0), JInt(-1), JInt(2), JFloat(Frac(5, 2)), JFloat(Frac(1, 2)),
     JFloat(Frac(-1, 2)), JFloat(Rat(2)), JStr("5"), JStr("2.5"), JStr("abc"), JList}
RawFactorLists ==
    { <<Factor("per", "ASC", Rat(1), "")>>,
      <<Factor("PER", "desc", Rat(1), ""), Factor("ML_MODEL", "desc", Rat(1), "m1")>>,
      <<Factor("ML_MODEL", "desc", Rat(1), "not-a-uuid")>>,
      <<Factor("ML_MODEL", "desc", Rat(1), "")>>,
      <<Factor("PER", "up", Rat(1), "")>>,
      <<Factor("SENTIMENT", "desc", Rat(1), "")>>,
      <<>> }
RawDefinitions ==
    [market : RawMarkets, min_market_cap : RawMinCaps, factors : RawFactorLists,
     top_n : RawTopNs, weight_method : {"EQUAL", "market_cap", "risk_parity"},
     frequency : {"Monthly", "quarterly", "weekly"}]

-----------------------------------------------------------------------------
(* _build_scored_sql: the request it builds *)

\* FACTOR_COLUMN_MAP[name] ("": no entry)
ColumnOf(name) ==
    CASE name = "PCTCHANGE"        -> "pct_change"
      [] name = "RSI_14"           -> "rsi_14"
      [] name = "MA_20D"           -> "ma_20d"
      [] name = "MOMENTUM_3M"      -> "momentum_3m"
      [] name = "MOMENTUM_12M"     -> "momentum_12m"
      [] name = "VOLATILITY_20D"   -> "volatility_20d"
      [] name = "MARKETCAP"        -> "market_cap"
      [] name = "PER"              -> "per"
      [] name = "PBR"              -> "pbr"
      [] name = "EPS"              -> "eps"
      [] name = "BPS"              -> "bps"
      [] name = "DIVIDENDYIELD"    -> "dividend_yield"
      [] name = "ROE"              -> "roe"
      [] name = "ROA"              -> "roa"
      [] name = "OPM"              -> "opm"
      [] name = "GPM"              -> "gpm"
      [] name = "DEBTTOEQUITY"     -> "debt_to_equity"
      [] name = "CURRENTRATIO"     -> "current_ratio"
      [] name = "ASSETTURNOVER"    -> "asset_turnover"
      [] name = "INTERESTCOVERAGE" -> "interest_coverage"
      [] OTHER                     -> ""

FINANCIAL_COMPONENTS ==
    [c \in {"roe", "roa", "opm", "gpm", "debt_to_equity", "current_ratio",
            "asset_turnover", "interest_coverage"} |->
        CASE c = "roe"               -> {"Net Income", "Stockholders Equity"}
          [] c = "roa"               -> {"Net Income", "Total Assets"}
          [] c = "opm"               -> {"Operating Income", "Total Revenue"}
          [] c = "gpm"               -> {"Gross Profit", "Total Revenue"}
          [] c = "debt_to_equity"    -> {"Total Debt", "Stockholders Equity"}
          [] c = "current_ratio"     -> {"Current Assets", "Current Liabilities"}
          [] c = "asset_turnover"    -> {"Total Revenue", "Total Assets"}
          [] c = "interest_coverage" -> {"EBIT", "Interest Expense"}]

\* non_ml = [f for f in spec.factors if f.name != "ML_MODEL" and f.weight != 0.0]
NonMl(factors) == SelectSeq(factors, LAMBDA f : f.name # "ML_MODEL" /\ f.weight # Rat(0))

\* Variant: every statement-derived factor counts, whatever its weight.
FinancialColsNeededAnyWeight(factors) ==
    {ColumnOf(factors[i].name) : i \in 1..Len(factors)} \cap DOMAIN FINANCIAL_COMPONENTS

\* The columns of non_ml that are keys of FINANCIAL_COMPONENTS.
FinancialColsNeeded(factors) ==
    {ColumnOf(NonMl(factors)[i].name) : i \in 1..Len(NonMl(factors))}
        \cap DOMAIN FINANCIAL_COMPONENTS

\* The if-chain that appends the aggregates, in its order.
RatioOrder ==
    <<"roe", "roa", "opm", "gpm", "debt_to_equity", "current_ratio", "asset_turnover",
      "interest_coverage">>

\* One term of final_score_expr: max(weight, 0) * (z of col), negated for asc.
ZTerm(f) ==
    [col |-> ColumnOf(f.name), weight |-> RMax(f.weight, Rat(0)),
     negated |-> f.direction = "asc"]

\* _build_scored_sql(spec, start, end): whether the LATERAL join on
\* financials_quarterly is present, the ratios it computes, the line items it
\* filters on, the fin.* columns selected and the terms of the score.
BuildScoredSql(factors) ==
    LET cols  == FinancialColsNeeded(factors)
        items == UNION {FINANCIAL_COMPONENTS[c] : c \in cols}
    IN  [join         |-> items # {},
         aggs         |-> IF items # {} THEN SelectSeq(RatioOrder, LAMBDA c : c \in cols)
                          ELSE <<>>,
         item_filters |-> IF items # {} THEN items ELSE {},
         fin_cols     |-> cols,
         z_terms      |-> [i \in 1..Len(NonMl(factors)) |-> ZTerm(NonMl(factors)[i])]]

-----------------------------------------------------------------------------
(* Model resolution and the external scorer *)

\* ml_factors = [f for f in spec.factors if f.name == "ML_MODEL" and f.model_id]
MlFactors(factors) ==
    SelectSeq(factors, LAMBDA f : f.name = "ML_MODEL" /\ f.model_id # "")

\* if ml_factors and float(ml_factors[0].weight) != 0.0
NeedsModel(factors) ==
    MlFactors(factors) # <<>> /\ MlFactors(factors)[1].weight # Rat(0)

\* Outcome of db.get(MLModel, model_id) followed by get_onnx_session(file_path).
\* _load_session is wrapped in lru_cache: a path loaded earlier in the process is
\* answered from the cache, before the test that the file exists; a path not in the
\* cache is tested and then handed to onnxruntime, which raises on a file it cannot read.
ResolveOutcome(model) ==
    CASE model = "absent"         -> [err |-> "StrategyExecutionError", session |-> "none"]
      [] model = "empty_path"     -> [err |-> "none", session |-> "none"]
      [] model = "missing_file"   -> [err |-> "ONNXModelError", session |-> "none"]
      [] model = "cached_deleted" -> [err |-> "none", session |-> "session"]
      [] model = "unloadable"     -> [err |-> "OnnxRuntimeException", session |-> "none"]
      [] model = "ok"             -> [err |-> "none", session |-> "session"]

\* has_ml = any(f.name == "ML_MODEL" and f.weight != 0.0 for f in factors)
HasMl(factors) ==
    \E i \in 1..Len(factors) : factors[i].name = "ML_MODEL" /\ factors[i].weight # Rat(0)

\* ml_weight = next((f.weight for f in factors if f.name == "ML_MODEL"), 0.0)
MlWeight(factors) ==
    LET ml == SelectSeq(factors, LAMBDA f : f.name = "ML_MODEL")
    IN  IF ml = <<>> THEN Rat(0) ELSE ml[1].weight

\* sigma > 1e-12.  A positive rational whose numerator and denominator fit
\* the model's integers exceeds 1e-12, so the test is sigma > 0.
AboveSigmaFloor(sigma) == RLt(Rat(0), sigma)

\* (ml_scores - mu) / sigma if sigma > 1e-12 else 0.0, for the row of ticker t
\* in a date group of at most two rows; out[t] is the scorer's output.
\* With two defined scores sigma is half their distance; a NaN score is
\* skipped by mean() and std(), which leaves sigma = 0 (or NaN).
ZMl(group, out, t) ==
    LET ts == {r.ticker : r \in group}
        ok == {u \in ts : ~IsNaN(out[u])}
    IN  IF Cardinality(ts) = 2 /\ ok = ts
        THEN LET o     == CHOOSE u \in ts : u # t
                 mu    == RDiv(RAdd(out[t], out[o]), Rat(2))
                 d     == RAdd(out[t], RMul(Rat(-1), out[o]))
                 sigma == RDiv(IF RLt(d, Rat(0)) THEN RMul(Rat(-1), d) ELSE d, Rat(2))
             IN  IF AboveSigmaFloor(sigma)
                 THEN RDiv(RAdd(out[t], RMul(Rat(-1), mu)), sigma)
                 ELSE Rat(0)
        ELSE Rat(0)

\* _apply_ml_and_rank, as a set of rows; out is the scorer's output per ticker.
ApplyMlAndRank(frame, factors, out) ==
    IF HasMl(factors)
    THEN {[r EXCEPT !.final_score =
              RAdd(r.final_score,
                   RMul(RMax(MlWeight(factors), Rat(0)),
                        ZMl({g \in frame : g.event_date = r.event_date}, out, r.ticker)))]
            : r \in frame}
    ELSE frame

\* score_dataframe with session None (or with no outputs): zeros
ZeroScores == [t \in Tickers |-> Rat(0)]

-----------------------------------------------------------------------------
(* _compute_metrics.  For a curve of two or more points cagr, volatility and
   sharpe are powers and roots of the curve's values; the record carries
   Uncomputed in their place. *)

Uncomputed == "uncomputed"

RECURSIVE CumMax(_, _)
CumMax(curve, i) ==
    IF i = 0 THEN NaN
    ELSE LET p == CumMax(curve, i - 1)
             v == curve[i].equity
         IN  IF IsNaN(v) THEN p ELSE IF IsNaN(p) THEN v ELSE RMax(p, v)

\* (series / cum_max) - 1.0 at position i; NaN where the value is NaN
Drawdown(curve, i) ==
    IF IsNaN(curve[i].equity) THEN NaN
    ELSE RAdd(RDiv(curve[i].equity, CumMax(curve, i)), Rat(-1))

RECURSIVE MinSkipNa(_, _, _)
MinSkipNa(curve, i, acc) ==
    IF i = 0 THEN acc
    ELSE LET v == Drawdown(curve, i)
         IN  MinSkipNa(curve, i - 1,
                       IF IsNaN(v) THEN acc ELSE IF IsNaN(acc) \/ RLt(v, acc) THEN v ELSE acc)

CapitalFloor == Frac(1, 1000000000)

ZeroMetrics == [total_return |-> Rat(0), cagr |-> Rat(0), volatility |-> Rat(0),
                sharpe |-> Rat(0), max_drawdown |-> Rat(0)]

\* Variant: only the empty curve is treated as degenerate.
ComputeMetricsEmptyOnly(curve, cap0) ==
    IF Len(curve) < 1 THEN ZeroMetrics
    ELSE [total_return |->
              RAdd(RDiv(curve[Len(curve)].equity, RMax(cap0, CapitalFloor)), Rat(-1)),
          cagr |-> Uncomputed, volatility |-> Uncomputed, sharpe |-> Uncomputed,
          max_drawdown |-> MinSkipNa(curve, Len(curve), NaN)]

ComputeMetrics(curve, cap0) ==
    IF Len(curve) < 2 THEN ZeroMetrics
    ELSE [total_return |->
              RAdd(RDiv(curve[Len(curve)].equity, RMax(cap0, CapitalFloor)), Rat(-1)),
          cagr |-> Uncomputed, volatility |-> Uncomputed, sharpe |-> Uncomputed,
          max_drawdown |-> MinSkipNa(curve, Len(curve), NaN)]

-----------------------------------------------------------------------------
(* execute_strategy *)

Raise(e) ==
    /\ pc' = "raised"
    /\ err' = e

Done(stage) == stages' = Append(stages, stage)

FactorLists ==
    { <<Factor("PER", "asc", Rat(1), "")>>,
      <<Factor("PER", "asc", Rat(1), ""), Factor("ML_MODEL", "desc", Rat(1), "m1")>>,
      <<Factor("ML_MODEL", "desc", Rat(0), "m1"), Factor("ML_MODEL", "desc", Rat(1), "m1")>>,
      <<Factor("ML_MODEL", "desc", Rat(1), "")>>,
      <<Factor("SENTIMENT", "desc", Rat(1), "")>>,
      <<>> }

StrategyJsons ==
    [factors : FactorLists, top_n : 0..MaxTopN,
     weight_method : VALID_WEIGHT_METHODS \cup {"risk_parity"},
     frequency : VALID_FREQUENCIES \cup {"weekly"}]

\* The MLModel row, its artifact and the session cache as the call finds them: no row;
\* a row without file_path; a row whose file is missing and was never loaded; a row
\* whose file was loaded earlier in the process and deleted since; a row whose file
\* onnxruntime cannot load; a row whose file loads.
ModelStates == {"absent", "empty_path", "missing_file", "cached_deleted", "unloadable", "ok"}

Init ==
    /\ pc = "validate"
    /\ err = "none"
    /\ request \in [start_before_end : BOOLEAN, strategy_json : StrategyJsons]
    /\ sql = NoSql
    /\ ApiIdle
    /\ initial_capital \in {Rat(0), Rat(1)}
    /\ db_model \in ModelStates
    /\ (ParseError(request.strategy_json) # "" \/ ~NeedsModel(request.strategy_json.factors)
           \/ ~request.start_before_end \/ initial_capital = Rat(0))
          => db_model = "absent"
    /\ spec = NoSpec
    /\ ml_session = "none"
    /\ universe_scored = {}
    /\ ranked = {}
    /\ metrics = NoMetrics
    /\ persisted = <<>>
    /\ stored = <<>>
    /\ stages = <<>>
    /\ prices = NoPrices
    /\ allocations = <<>>
    /\ alloc_order = <<>>
    /\ SimIdle

\* if start_date >= end_date: raise ...; if initial_capital <= 0: raise ...
Validate ==
    /\ pc = "validate"
    /\ IF ~request.start_before_end \/ RLe(initial_capital, Rat(0))
       THEN Raise("StrategyExecutionError") /\ UNCHANGED stages
       ELSE pc' = "parse" /\ Done("validate") /\ UNCHANGED err
    /\ UNCHANGED <<simVars, request, sql, apiVars, db_model, spec, ml_session, universe_scored,
                   ranked, metrics, persisted, stored>>

\* spec = parse_strategy(strategy_json)
Parse ==
    /\ pc = "parse"
    /\ IF ParseError(request.strategy_json) # ""
       THEN Raise("StrategyExecutionError") /\ UNCHANGED <<spec, stages>>
       ELSE /\ spec' = ParseStrategy(request.strategy_json)
            /\ pc' = "resolve"
            /\ Done("parse")
            /\ UNCHANGED err
    /\ UNCHANGED <<simVars, request, sql, apiVars, db_model, ml_session, universe_scored,
                   ranked, metrics, persisted, stored>>

\* ml_model = db.get(...); ml_session = get_onnx_session(ml_model.file_path)
ResolveModel ==
    /\ pc = "resolve"
    /\ IF NeedsModel(spec.factors) /\ ResolveOutcome(db_model).err # "none"
       THEN Raise(ResolveOutcome(db_model).err) /\ UNCHANGED <<ml_session, stages>>
       ELSE /\ ml_session' = IF NeedsModel(spec.factors)
                             THEN ResolveOutcome(db_model).session ELSE "none"
            /\ pc' = "build_sql"
            /\ Done("resolve")
            /\ UNCHANGED err
    /\ UNCHANGED <<simVars, request, sql, apiVars, db_model, spec, universe_scored,
                   ranked, metrics, persisted, stored>>

\* DELETE /models/{model_id} (delete_model) for the row the strategy refers to: the
\* artifact is unlinked, then the row is deleted and the delete committed; when the
\* commit fails the row stays without its file. The call reads the row in its resolve
\* step only, so a delete is followed up to that step.
DeleteModel ==
    /\ pc \in {"validate", "parse", "resolve"}
    /\ db_model \notin {"absent", "empty_path"}
    /\ db_model' \in {"absent"} \cup
                      (IF db_model = "ok" THEN {"missing_file", "cached_deleted"}
                       ELSE IF db_model = "unloadable" THEN {"missing_file"}
                       ELSE {})
    /\ UNCHANGED <<pc, simVars, err, request, sql, apiVars, spec, ml_session, universe_scored,
                   ranked, metrics, persisted, stored, stages>>

\* sql, params, used = _build_scored_sql(spec, start_date, end_date)
BuildSql ==
    /\ pc = "build_sql"
    /\ sql' = BuildScoredSql(spec.factors)
    /\ pc' = "fetch"
    /\ Done("build_sql")
    /\ UNCHANGED <<simVars, err, request, apiVars, db_model, spec, ml_session, universe_scored,
                   ranked, metrics, persisted, stored>>

CloseVals == {NaN} \cup {Rat(p) : p \in 1..MaxClose}
ScoreFns == {f \in [Tickers -> {Rat(0), Rat(1)}] : f["B"] = Rat(0)}
CapFns == [Tickers -> {NaN, Rat(-1), Rat(1)}]

\* Frames the data provider may return: both tickers on every date present,
\* market_cap and final_score constant per ticker.
FetchedFrames ==
    UNION { { { [event_date |-> d, ticker |-> t, close_price |-> c[<<d, t>>],
                 market_cap |-> cp[t], final_score |-> sc[t]] : d \in S, t \in Tickers }
              : c \in [S \X Tickers -> CloseVals], sc \in ScoreFns, cp \in CapFns }
            : S \in SUBSET Days }

\* universe_scored = _fetch_scored_frame(db, sql, params)
Fetch ==
    /\ pc = "fetch"
    /\ \/ Raise("DatabaseError") /\ UNCHANGED <<universe_scored, stages>>
       \/ /\ universe_scored' \in FetchedFrames
          /\ pc' = "branch"
          /\ Done("fetch")
          /\ UNCHANGED err
    /\ UNCHANGED <<simVars, request, sql, apiVars, db_model, spec, ml_session, ranked, metrics, persisted, stored>>

\* if universe_scored.empty: persist an empty result and return it
\* (_persist_backtest builds the record, adds it to the session and commits: the
\* commit either writes the record or raises, and db.refresh() may raise after it)
EmptyResult ==
    /\ pc = "branch"
    /\ universe_scored = {}
    /\ metrics' = ZeroMetrics
    /\ persisted' = Append(persisted, [equity_curve |-> <<>>, metrics |-> ZeroMetrics])
    /\ \/ /\ stored' = Append(stored, [equity_curve |-> <<>>, metrics |-> ZeroMetrics])
          /\ pc' = "returned"
          /\ Done("persist")
          /\ UNCHANGED err
       \/ Raise("SQLAlchemyError") /\ UNCHANGED <<stored, stages>>
       \/ /\ stored' = Append(stored, [equity_curve |-> <<>>, metrics |-> ZeroMetrics])
          /\ Raise("SQLAlchemyError")
          /\ UNCHANGED stages
    /\ UNCHANGED <<simVars, request, sql, apiVars, db_model, spec, ml_session, universe_scored, ranked>>

MlOutputs == [Tickers -> {Rat(m) : m \in 0..MaxMl}]

\* ranked = _apply_ml_and_rank(universe_scored, spec.factors, used, ml_session)
Rank ==
    /\ pc = "branch"
    /\ universe_scored # {}
    /\ IF HasMl(spec.factors) /\ ml_session = "session"
       THEN \/ Raise("OnnxRuntimeException") /\ UNCHANGED <<ranked, stages>>
            \/ /\ \E out \in MlOutputs :
                     ranked' = ApplyMlAndRank(universe_scored, spec.factors, out)
               /\ pc' = "allocate"
               /\ Done("rank")
               /\ UNCHANGED err
       ELSE /\ ranked' = ApplyMlAndRank(universe_scored, spec.factors, ZeroScores)
            /\ pc' = "allocate"
            /\ Done("rank")
            /\ UNCHANGED err
    /\ UNCHANGED <<simVars, request, sql, apiVars, db_model, spec, ml_session, universe_scored,
                   metrics, persisted, stored>>

\* allocations = _build_allocations(ranked, spec.portfolio, spec.rebalancing.frequency)
\* An empty frame has no datetime event_date column unless the caller made one:
\* the .dt accessor raises, or no allocation is produced.
Allocate ==
    /\ pc = "allocate"
    /\ IF ranked = {}
       THEN /\ \E e \in {"AttributeError", "StrategyExecutionError"} : Raise(e)
            /\ UNCHANGED <<allocations, alloc_order, stages>>
       ELSE /\ allocations' \in
                 BuildAllocations(ranked, spec.top_n, spec.weight_method, spec.frequency)
            /\ alloc_order' = SelectSeq(DetermineRebalancingDates(ranked, spec.frequency),
                                        LAMBDA d : d \in DOMAIN allocations')
            /\ pc' = "prices"
            /\ Done("allocate")
            /\ UNCHANGED err
    /\ UNCHANGED <<prices, initial_capital, tplus1_allocs, mapped, current_shares, capital,
                   equity_curve, dayPos, heldFrom, basis>>
    /\ UNCHANGED <<request, sql, apiVars, db_model, spec, ml_session, universe_scored, ranked,
                   metrics, persisted, stored>>

\* price_matrix = _prepare_price_matrix(universe_scored)
PreparePrices ==
    /\ pc = "prices"
    /\ IF PreparePriceMatrix(universe_scored).idx = <<>>
       THEN Raise("StrategyExecutionError") /\ UNCHANGED <<prices, stages>>
       ELSE /\ prices' = PreparePriceMatrix(universe_scored)
            /\ pc' = "simulate"
            /\ Done("prices")
            /\ UNCHANGED err
    /\ UNCHANGED <<allocations, alloc_order, initial_capital, tplus1_allocs, mapped, current_shares,
                   capital, equity_curve, dayPos, heldFrom, basis>>
    /\ UNCHANGED <<request, sql, apiVars, db_model, spec, ml_session, universe_scored, ranked,
                   metrics, persisted, stored>>

\* equity_curve = _simulate_equity_curve_Tplus1(price_matrix, allocations, initial_capital)
Simulate ==
    /\ pc = "simulate"
    /\ equity_curve' = SimulateEquityCurve(prices, allocations, initial_capital)
    /\ pc' = "metrics"
    /\ Done("simulate")
    /\ UNCHANGED <<prices, allocations, alloc_order, initial_capital, tplus1_allocs, mapped,
                   current_shares, capital, dayPos, heldFrom, basis>>
    /\ UNCHANGED <<err, request, sql, apiVars, db_model, spec, ml_session, universe_scored, ranked,
                   metrics, persisted, stored>>

\* metrics = _compute_metrics(equity_curve, initial_capital)
Metrics ==
    /\ pc = "metrics"
    /\ metrics' = ComputeMetrics(equity_curve, initial_capital)
    /\ pc' = "adapter"
    /\ Done("metrics")
    /\ UNCHANGED <<simVars, err, request, sql, apiVars, db_model, spec, ml_session, universe_scored,
                   ranked, persisted, stored>>

\* _run_backtesting_adapter(equity_curve, initial_capital): the replay through
\* the backtesting library either completes or raises.
Adapter ==
    /\ pc = "adapter"
    /\ \/ Raise("BacktestingError") /\ UNCHANGED stages
       \/ pc' = "persist" /\ Done("adapter") /\ UNCHANGED err
    /\ UNCHANGED <<simVars, request, sql, apiVars, db_model, spec, ml_session, universe_scored,
                   ranked, metrics, persisted, stored>>

\* rec = _persist_backtest(...); return {...}
\* (the record is built and added to the session; db.commit() writes it or raises,
\* and db.refresh() may raise after the commit)
Persist ==
    /\ pc = "persist"
    /\ persisted' = Append(persisted, [equity_curve |-> equity_curve, metrics |-> metrics])
    /\ \/ /\ stored' = Append(stored, [equity_curve |-> equity_curve, metrics |-> metrics])
          /\ pc' = "returned"
          /\ Done("persist")
          /\ UNCHANGED err
       \/ Raise("SQLAlchemyError") /\ UNCHANGED <<stored, stages>>
       \/ /\ stored' = Append(stored, [equity_curve |-> equity_curve, metrics |-> metrics])
          /\ Raise("SQLAlchemyError")
          /\ UNCHANGED stages
    /\ UNCHANGED <<simVars, request, sql, apiVars, db_model, spec, ml_session, universe_scored,
                   ranked, metrics>>

Next ==
    \/ Validate \/ Parse \/ DeleteModel \/ ResolveModel \/ BuildSql \/ Fetch \/ EmptyResult
    \/ Rank
    \/ Allocate \/ PreparePrices \/ Simulate \/ Metrics \/ Adapter \/ Persist

Spec == Init /\ [][Next]_vars

-----------------------------------------------------------------------------
(* Direct calls of _build_allocations *)

\* Jan 31, Feb 1, Feb 28, Apr 1
ScoreDays == Days \cup {32}
ScoreVals == {NaN, Rat(0), Rat(1)}
CapVals == {NaN} \cup {Rat(c) : c \in (-1)..MaxCap}

\* Frames with any subset of the (date, ticker) rows; market_cap and
\* final_score constant per ticker.
ScoredFrames ==
    { { [event_date |-> c[1], ticker |-> c[2], close_price |-> Rat(1),
         market_cap |-> cp[c[2]], final_score |-> sc[c[2]]] : c \in P }
      : P \in SUBSET (ScoreDays \X Tickers), sc \in [Tickers -> ScoreVals],
        cp \in [Tickers -> CapVals] }

InitAlloc ==
    /\ pc = "allocate"
    /\ ranked \in ScoredFrames
    /\ spec \in [factors : {<<>>}, top_n : 1..MaxTopN,
                 weight_method : VALID_WEIGHT_METHODS, frequency : VALID_FREQUENCIES]
    /\ err = "none"
    /\ request = NoRequest
    /\ sql = NoSql
    /\ ApiIdle
    /\ db_model = "absent"
    /\ ml_session = "none"
    /\ universe_scored = {}
    /\ metrics = NoMetrics
    /\ persisted = <<>>
    /\ stored = <<>>
    /\ stages = <<>>
    /\ prices = NoPrices
    /\ allocations = <<>>
    /\ alloc_order = <<>>
    /\ initial_capital = Rat(1)
    /\ SimIdle

NextAlloc == Allocate

AllocSpec == InitAlloc /\ [][NextAlloc]_vars

-----------------------------------------------------------------------------
(* The scored query of _build_scored_sql, evaluated on a base table.

   Rows of the base table are [event_date, ticker, per, pbr]; a NULL is NaN.
   STDDEV_SAMP of two values a, b is |a - b| / sqrt(2), so the scores of a
   date of two rows are multiples of sqrt(2): a value of the query is
   [rat, root2], standing for rat + root2 * sqrt(2), or SqlNull.  Dates have
   at most two rows.  The weights of the model are integers, which the
   "%.10f" literal of the query text represents exactly. *)

MaxRaw == 1

Surd(a, b) == [rat |-> a, root2 |-> b]
SqlNull == Surd(NaN, NaN)
IsNull(x) == IsNaN(x.rat) \/ IsNaN(x.root2)
SAdd(x, y) == IF IsNull(x) \/ IsNull(y) THEN SqlNull
              ELSE Surd(RAdd(x.rat, y.rat), RAdd(x.root2, y.root2))
\* a rational times a value
SScale(q, x) == IF IsNaN(q) \/ IsNull(x) THEN SqlNull
                ELSE Surd(RMul(q, x.rat), RMul(q, x.root2))
\* a rational over a value: q (a - b sqrt 2) / (a^2 - 2 b^2)
SDiv(q, x) ==
    IF IsNaN(q) \/ IsNull(x) THEN SqlNull
    ELSE LET den == RAdd(RMul(x.rat, x.rat), RMul(Rat(-2), RMul(x.root2, x.root2)))
         IN  Surd(RDiv(RMul(q, x.rat), den), RDiv(RMul(Rat(-1), RMul(q, x.root2)), den))

\* FACTOR_COLUMN_MAP[f.name], for the two columns of the base table
FactorColumn(name) == IF name = "PER" THEN "per" ELSE "pbr"

\* The non-NULL values of col in the partition of date d (with multiplicity:
\* one entry per row).
PartitionRows(base, d, col) == {r \in base : r.event_date = d /\ ~IsNaN(r[col])}

\* AVG(col) OVER (PARTITION BY event_date): NULLs are ignored
SqlAvg(base, d, col) ==
    LET rows == PartitionRows(base, d, col)
    IN  IF rows = {} THEN NaN
        ELSE RDiv(RSumSet(rows, [r \in rows |-> r[col]]), Rat(Cardinality(rows)))

\* STDDEV_SAMP(col) OVER (PARTITION BY event_date): NULL for fewer than two
\* non-NULL inputs
SqlStddevSamp(base, d, col) ==
    LET rows == PartitionRows(base, d, col)
    IN  IF Cardinality(rows) < 2 THEN SqlNull
        ELSE LET r1 == CHOOSE r \in rows : TRUE
                 r2 == CHOOSE r \in rows : r # r1
                 df == RAdd(r1[col], RMul(Rat(-1), r2[col]))
             IN  Surd(Rat(0), RDiv(IF RLt(df, Rat(0)) THEN RMul(Rat(-1), df) ELSE df, Rat(2)))

\* NULLIF(x, 0)
NullIfZero(x) == IF x = Surd(Rat(0), Rat(0)) THEN SqlNull ELSE x

\* (col - AVG(col) OVER w) / NULLIF(STDDEV_SAMP(col) OVER w, 0) for row r
SqlZ(base, r, col) ==
    SDiv(RAdd(r[col], RMul(Rat(-1), SqlAvg(base, r.event_date, col))),
         NullIfZero(SqlStddevSamp(base, r.event_date, col)))

\* max(f.weight, 0.0) * (signed z) for factor f and row r
SqlTerm(base, r, f) ==
    LET z      == SqlZ(base, r, FactorColumn(f.name))
        signed == IF f.direction = "asc" THEN SScale(Rat(-1), z) ELSE z
    IN  SScale(RMax(f.weight, Rat(0)), signed)

\* " + ".join(z_terms) if z_terms else "0.0", evaluated for row r
RECURSIVE SqlFinalScore(_, _, _, _)
SqlFinalScore(base, r, fs, n) ==
    IF n = 0 THEN Surd(Rat(0), Rat(0))
    ELSE IF n = 1 THEN SqlTerm(base, r, fs[1])
    ELSE SAdd(SqlFinalScore(base, r, fs, n - 1), SqlTerm(base, r, fs[n]))

\* SELECT base.*, (final_score_expr) AS final_score FROM base
ScoredQuery(base, factors) ==
    {[event_date |-> r.event_date, ticker |-> r.ticker, per |-> r.per, pbr |-> r.pbr,
      final_score |-> SqlFinalScore(base, r, NonMl(factors), Len(NonMl(factors)))]
        : r \in base}

RawVals == {NaN} \cup {Rat(v) : v \in 0..MaxRaw}

\* pbr is missing or a number that tells the tickers apart
PbrOf(t) == IF t = "A" THEN Rat(0) ELSE Rat(1)

\* Base tables over the first two dates: every (date, ticker) has no row or
\* one row.
ScoreDates == {d \in Days : d <= 59}

CellChoices ==
    {<<FALSE, NaN, FALSE>>} \cup {<<TRUE, v, has>> : v \in RawVals, has \in BOOLEAN}

BaseTables ==
    {{[event_date |-> c[1], ticker |-> c[2], per |-> f[c][2],
       pbr |-> IF f[c][3] THEN PbrOf(c[2]) ELSE NaN]
         : c \in {x \in ScoreDates \X Tickers : f[x][1]}}
       : f \in [ScoreDates \X Tickers -> CellChoices]}

ScoreWeights == {Rat(-1), Rat(0), Rat(1)}

ScoreFactorLists ==
    {<<Factor("PER", dir, w, "")>> : dir \in VALID_DIRECTIONS, w \in ScoreWeights}
    \cup {<<Factor("PER", "desc", w, ""), Factor("PBR", "asc", v, "")>> :
              w \in ScoreWeights, v \in ScoreWeights}

InitScore ==
    /\ pc = "build_sql"
    /\ spec \in [factors : ScoreFactorLists, top_n : {1}, weight_method : {"equal"},
                 frequency : {"monthly"}]
    /\ err = "none"
    /\ request = NoRequest
    /\ sql = NoSql
    /\ ApiIdle
    /\ db_model = "absent"
    /\ ml_session = "none"
    /\ universe_scored = {}
    /\ ranked = {}
    /\ metrics = NoMetrics
    /\ persisted = <<>>
    /\ stored = <<>>
    /\ stages = <<>>
    /\ prices = NoPrices
    /\ allocations = <<>>
    /\ alloc_order = <<>>
    /\ initial_capital = Rat(1)
    /\ SimIdle

\* universe_scored = _fetch_scored_frame(db, sql, params), the query run on
\* the table the database holds
FetchScored ==
    /\ pc = "fetch"
    /\ \E base \in BaseTables : universe_scored' = ScoredQuery(base, spec.factors)
    /\ pc' = "branch"
    /\ Done("fetch")
    /\ UNCHANGED <<simVars, err, request, sql, apiVars, db_model, spec, ml_session, ranked, metrics,
                   persisted, stored>>

NextScore == BuildSql \/ FetchScored

ScoreSpec == InitScore /\ [][NextScore]_vars

-----------------------------------------------------------------------------
(* Direct calls of _compute_metrics *)

EquityVals == {NaN} \cup {Rat(e) : e \in 0..MaxPrice}

\* Curves of at most two points on increasing dates.
ShortCurves ==
    {<<>>}
    \cup {<<[date |-> d, equity |-> v]>> : d \in Days, v \in EquityVals}
    \cup {<<[date |-> de[1], equity |-> v], [date |-> de[2], equity |-> w]>> :
              de \in {x \in Days \X Days : x[1] < x[2]}, v \in EquityVals, w \in EquityVals}

CapitalVals == {NaN, Rat(-1), Rat(0), Rat(1), Rat(2)}

InitMetrics ==
    /\ pc = "metrics"
    /\ equity_curve \in ShortCurves
    /\ initial_capital \in CapitalVals
    /\ prices = NoPrices
    /\ allocations = <<>>
    /\ alloc_order = <<>>
    /\ tplus1_allocs = <<>>
    /\ mapped = 0
    /\ current_shares = <<>>
    /\ capital = initial_capital
    /\ dayPos = 0
    /\ heldFrom = 0
    /\ basis = <<>>
    /\ PipeIdle

NextMetrics == Metrics

MetricsSpec == InitMetrics /\ [][NextMetrics]_vars

-----------------------------------------------------------------------------
(* Direct calls of _build_scored_sql *)

SqlFactorNames == {"PER", "ROE", "ROA", "OPM", "GPM", "ML_MODEL"}

SqlFactors ==
    {Factor(n, "desc", w, IF n = "ML_MODEL" THEN "m1" ELSE "") :
        n \in SqlFactorNames, w \in {Rat(-1), Rat(0), Rat(1)}}

\* Strategies of one or two factors.
SqlFactorLists == {<<f>> : f \in SqlFactors} \cup {<<f, g>> : f \in SqlFactors, g \in SqlFactors}

InitSql ==
    /\ pc = "build_sql"
    /\ spec \in [factors : SqlFactorLists, top_n : {1}, weight_method : {"equal"},
                 frequency : {"monthly"}]
    /\ err = "none"
    /\ request = NoRequest
    /\ sql = NoSql
    /\ ApiIdle
    /\ db_model = "absent"
    /\ ml_session = "none"
    /\ universe_scored = {}
    /\ ranked = {}
    /\ metrics = NoMetrics
    /\ persisted = <<>>
    /\ stored = <<>>
    /\ stages = <<>>
    /\ prices = NoPrices
    /\ allocations = <<>>
    /\ alloc_order = <<>>
    /\ initial_capital = Rat(1)
    /\ SimIdle

NextSql == BuildSql

SqlSpec == InitSql /\ [][NextSql]_vars

-----------------------------------------------------------------------------
(* Direct calls of parse_strategy *)

InitParse ==
    /\ pc = "parse"
    /\ request \in [start_before_end : {TRUE}, strategy_json : RawDefinitions]
    /\ sql = NoSql
    /\ ApiIdle
    /\ err = "none"
    /\ db_model = "absent"
    /\ spec = NoSpec
    /\ ml_session = "none"
    /\ universe_scored = {}
    /\ ranked = {}
    /\ metrics = NoMetrics
    /\ persisted = <<>>
    /\ stored = <<>>
    /\ stages = <<>>
    /\ prices = NoPrices
    /\ allocations = <<>>
    /\ alloc_order = <<>>
    /\ initial_capital = Rat(1)
    /\ SimIdle

\* spec = parse_strategy(strategy_json)
ParseDefinition ==
    /\ pc = "parse"
    /\ request.strategy_json \in RawDefinitions
    /\ LET res == parse_strategy(request.strategy_json)
       IN  IF res.exc # "none"
           THEN Raise(res.exc) /\ UNCHANGED spec
           ELSE /\ spec' = res.spec
                /\ pc' = "parsed"
                /\ UNCHANGED err
    /\ UNCHANGED <<simVars, request, sql, apiVars, db_model, ml_session, universe_scored, ranked,
                   metrics, persisted, stored, stages>>

NextParse == ParseDefinition

ParseSpec == InitParse /\ [][NextParse]_vars

-----------------------------------------------------------------------------
(* Database tuning: apply_db_configuration and restore_db_configuration *)

MaxTunes == 1
MaxRestores == 2
MaxRefusals == 2

\* A configuration is a dict, kept as the set of its <<key, value>> items.
Keys(config) == {item[1] : item \in config}

\* key_pattern = re.compile(r"^[a-z0-9_]+$")
KeyPatternMatches(k) == k \in {"work_mem", "no_such_param"}

\* target_keys = [k for k in best_config.keys() if key_pattern.match(k)]
TargetKeys(config) == {k \in Keys(config) : KeyPatternMatches(k)}

\* _get_current_params: SELECT name, setting FROM pg_settings WHERE name IN (keys)
GetCurrentParams(settings, keys) == {<<k, settings[k]>> : k \in keys \cap DOMAIN settings}

\* Configurations uploaded to /admin/tune (the dict that best_config becomes).
Configs ==
    { {},
      {<<"work_mem", "8MB">>},
      {<<"work_mem", "8MB">>, <<"no_such_param", "1">>},
      {<<"no_such_param", "1">>, <<"Bad-Key", "1">>} }

\* How the statements for one parameter end: ALTER SYSTEM works, or only SET works, or neither.
ApplyOutcomes == {"system", "session", "failed"}

DBTuningLog(applied_by, target, backup) ==
    [applied_by |-> applied_by, target_config |-> target, backup_config |-> backup,
     is_reverted |-> FALSE]

\* A call of apply_db_configuration after its lines 34-60: caller is 0 for POST /admin/tune
\* and the position of the restore call otherwise; log_entry is the row handed to db.add,
\* valid_names tells whether SELECT name FROM pg_settings gave the names, errors whether
\* the list of errors is non-empty.
ApplyCall(caller, applied_by, best_config, backup_config, names_ok) ==
    [caller |-> caller,
     log_entry |-> DBTuningLog(applied_by, best_config, backup_config),
     valid_names |-> names_ok,
     system_keys |-> {}, session_keys |-> {},
     errors |-> ~names_ok,
     pc |-> "statements", status |-> ""]

\* lines 109-110
ApplyStatus(errors, total_applied) ==
    IF errors /\ total_applied = 0 THEN "failed"
    ELSE IF errors THEN "partial_success" ELSE "success"

\* value of best_config[k]
ConfigValue(config, k) == (CHOOSE item \in config : item[1] = k)[2]

\* apply_db_configuration, lines 62-87: the statements of the loop, how[k] the outcome of
\* the statements for parameter k. ALTER SYSTEM is not undone by a rollback, so its
\* setting is in force from here; a SET is in force once the transaction commits.
ApplyStatements(a, how) ==
    /\ pc = "admin"
    /\ a \in 1..Len(applies)
    /\ applies[a].pc = "statements"
    /\ LET best_config  == applies[a].log_entry.target_config
           target_keys  == TargetKeys(best_config)
           skipped      == IF applies[a].valid_names
                           THEN target_keys \ DOMAIN pg_settings ELSE {}
           tried        == target_keys \ skipped
           system_keys  == {k \in tried \cap DOMAIN pg_settings : how[k] = "system"}
           session_keys == {k \in tried \cap DOMAIN pg_settings : how[k] = "session"}
       IN  /\ pg_settings' = [k \in DOMAIN pg_settings |->
                                 IF k \in system_keys THEN ConfigValue(best_config, k)
                                 ELSE pg_settings[k]]
           /\ applies' = [applies EXCEPT ![a] =
                 [@ EXCEPT !.system_keys = system_keys,
                           !.session_keys = session_keys,
                           !.errors = @ \/ skipped # {} \/ tried # system_keys,
                           !.pc = "commit"]]
    /\ UNCHANGED <<pc, simVars, err, request, sql, tuning_logs, restores, strategies, response, handlers, started,
                   db_model, spec, ml_session, universe_scored, ranked, metrics, persisted,
                   stored, stages>>

\* The end of a call of apply_db_configuration (lines 109-118): its locals are gone and
\* its status is handed to the restore call that made it.
ApplyReturns(a, errors) ==
    LET status == ApplyStatus(errors, Cardinality(applies[a].system_keys)
                                      + Cardinality(applies[a].session_keys))
        c      == applies[a].caller
    IN  /\ applies' = [applies EXCEPT ![a] =
              [caller |-> c, pc |-> "returned", status |-> status]]
        /\ restores' = IF c = 0 THEN restores
                       ELSE [restores EXCEPT ![c] = [@ EXCEPT !.pc = "mark", !.status = status]]

\* apply_db_configuration, lines 89-93: db.commit() writes the log row and keeps the
\* settings of the session; when it raises, db.rollback() drops both. Without a key
\* that ALTER SYSTEM has set, lines 95-107 do nothing and the call returns.
ApplyCommit(a, commit_ok) ==
    /\ pc = "admin"
    /\ a \in 1..Len(applies)
    /\ applies[a].pc = "commit"
    /\ tuning_logs' = IF commit_ok THEN Append(tuning_logs, applies[a].log_entry)
                      ELSE tuning_logs
    /\ pg_settings' = [k \in DOMAIN pg_settings |->
                          IF commit_ok /\ k \in applies[a].session_keys
                          THEN ConfigValue(applies[a].log_entry.target_config, k)
                          ELSE pg_settings[k]]
    /\ IF applies[a].system_keys # {}
       THEN /\ applies' = [applies EXCEPT ![a] =
                  [@ EXCEPT !.errors = @ \/ ~commit_ok, !.pc = "reload"]]
            /\ UNCHANGED restores
       ELSE ApplyReturns(a, applies[a].errors \/ ~commit_ok)
    /\ UNCHANGED <<pc, simVars, err, request, sql, strategies, response, handlers, started, db_model, spec,
                   ml_session, universe_scored, ranked, metrics, persisted, stored, stages>>

\* apply_db_configuration, lines 95-118: pg_reload_conf(), the pending_restart query and
\* the second db.commit(); a failure of any of them adds an error.
ApplyReload(a, reload_ok) ==
    /\ pc = "admin"
    /\ a \in 1..Len(applies)
    /\ applies[a].pc = "reload"
    /\ ApplyReturns(a, applies[a].errors \/ ~reload_ok)
    /\ UNCHANGED <<pc, simVars, err, request, sql, tuning_logs, pg_settings, strategies,
                   response, handlers, started, db_model, spec, ml_session, universe_scored, ranked, metrics,
                   persisted, stored, stages>>

\* POST /admin/tune: apply_db_configuration(db, config_data), lines 34-60: an empty
\* configuration raises ValueError (the route answers 400); otherwise the current
\* settings of the target keys are read as the backup and the log row is added.
ApplyConfiguration(config, names_ok) ==
    /\ pc = "admin"
    /\ Cardinality({a \in 1..Len(applies) : applies[a].caller = 0}) < MaxTunes
    /\ applies' = IF config = {} THEN applies
                  ELSE Append(applies,
                          ApplyCall(0, "system", config,
                                    GetCurrentParams(pg_settings, TargetKeys(config)),
                                    names_ok))
    /\ UNCHANGED <<pc, simVars, err, request, sql, tuning_logs, pg_settings, restores,
                   strategies, response, handlers, started, db_model, spec, ml_session, universe_scored, ranked,
                   metrics, persisted, stored, stages>>

\* apply_postgres_configuration (db_tuner.py): ALTER SYSTEM for every key of the pattern,
\* no backup and no log row; how[k] = "system" when the statement for k works.
ApplyPostgresConfiguration(config, how) ==
    /\ pc = "admin"
    /\ pg_settings' = [k \in DOMAIN pg_settings |->
                          IF k \in TargetKeys(config) /\ how[k] = "system"
                          THEN ConfigValue(config, k) ELSE pg_settings[k]]
    /\ UNCHANGED <<pc, simVars, err, request, sql, tuning_logs, restores, applies, strategies,
                   response, handlers, started, db_model, spec, ml_session, universe_scored, ranked, metrics,
                   persisted, stored, stages>>

\* A call of restore_db_configuration: the row it loaded and where it stands.
RestoreCall(log_id, at, msg, backup) ==
    [log_id |-> log_id, pc |-> at, msg |-> msg, backup |-> backup, status |-> ""]

\* The call ended in lines 122-126.
Refused(c) == restores[c].msg \in {"Log not found", "Already reverted"}

\* restore_db_configuration, lines 121-126: load the row, refuse if missing or reverted.
RestoreQuery(log_id) ==
    /\ pc = "admin"
    /\ log_id <= Len(tuning_logs) + 1
    /\ IF log_id \in 1..Len(tuning_logs) /\ ~tuning_logs[log_id].is_reverted
       THEN Cardinality({c \in 1..Len(restores) : ~Refused(c)}) < MaxRestores
       ELSE Cardinality({c \in 1..Len(restores) : Refused(c)}) < MaxRefusals
    /\ restores' = Append(restores,
          IF log_id \notin 1..Len(tuning_logs)
          THEN RestoreCall(log_id, "raised", "Log not found", {})
          ELSE IF tuning_logs[log_id].is_reverted
          THEN RestoreCall(log_id, "raised", "Already reverted", {})
          ELSE RestoreCall(log_id, "apply", "", tuning_logs[log_id].backup_config))
    /\ UNCHANGED <<pc, simVars, err, request, sql, tuning_logs, pg_settings, applies,
                   strategies, response, handlers, started, db_model, spec, ml_session, universe_scored, ranked,
                   metrics, persisted, stored, stages>>

\* restore_db_configuration, line 128: apply_db_configuration(db, log.backup_config, ...)
\* up to its line 60; an empty backup raises ValueError.
RestoreApply(c, names_ok) ==
    /\ pc = "admin"
    /\ c \in 1..Len(restores)
    /\ restores[c].pc = "apply"
    /\ IF restores[c].backup = {}
       THEN /\ restores' = [restores EXCEPT ![c] =
                  [@ EXCEPT !.pc = "raised", !.msg = "Invalid configuration data"]]
            /\ UNCHANGED applies
       ELSE /\ applies' = Append(applies,
                  ApplyCall(c, "admin (Restore)", restores[c].backup,
                            GetCurrentParams(pg_settings, TargetKeys(restores[c].backup)),
                            names_ok))
            /\ restores' = [restores EXCEPT ![c].pc = "applying"]
    /\ UNCHANGED <<pc, simVars, err, request, sql, tuning_logs, pg_settings, strategies,
                   response, handlers, started, db_model, spec, ml_session, universe_scored, ranked, metrics,
                   persisted, stored, stages>>

\* The same step without line 130: the row is committed as it was loaded.
RestoreMarkForgets(c, commit_ok) ==
    /\ pc = "admin"
    /\ c \in 1..Len(restores)
    /\ restores[c].pc = "mark"
    /\ restores' = [restores EXCEPT ![c] =
          IF commit_ok THEN [@ EXCEPT !.pc = "returned"]
          ELSE [@ EXCEPT !.pc = "raised", !.msg = "commit failed"]]
    /\ UNCHANGED <<pc, simVars, err, request, sql, tuning_logs, pg_settings, applies,
                   strategies, response, handlers, started, db_model, spec, ml_session, universe_scored, ranked,
                   metrics, persisted, stored, stages>>

\* restore_db_configuration, lines 130-134: log.is_reverted = True; db.commit(); return
RestoreMark(c, commit_ok) ==
    /\ pc = "admin"
    /\ c \in 1..Len(restores)
    /\ restores[c].pc = "mark"
    /\ IF commit_ok
       THEN /\ tuning_logs' = [tuning_logs EXCEPT ![restores[c].log_id].is_reverted = TRUE]
            /\ restores' = [restores EXCEPT ![c].pc = "returned"]
       ELSE /\ restores' = [restores EXCEPT ![c].pc = "raised", ![c].msg = "commit failed"]
            /\ UNCHANGED tuning_logs
    /\ UNCHANGED <<pc, simVars, err, request, sql, pg_settings, applies, strategies, response, handlers, started,
                   db_model, spec, ml_session, universe_scored, ranked, metrics, persisted,
                   stored, stages>>

InitAdmin ==
    /\ pc = "admin"
    /\ PipeIdle
    /\ prices = NoPrices
    /\ allocations = <<>>
    /\ alloc_order = <<>>
    /\ initial_capital = Rat(1)
    /\ SimIdle

NextAdmin ==
    \/ \E config \in Configs, names_ok \in BOOLEAN : ApplyConfiguration(config, names_ok)
    \/ \E a \in 1..(MaxTunes + MaxRestores), how \in [KnownParams -> ApplyOutcomes] :
          ApplyStatements(a, how)
    \/ \E a \in 1..(MaxTunes + MaxRestores), commit_ok \in BOOLEAN : ApplyCommit(a, commit_ok)
    \/ \E a \in 1..(MaxTunes + MaxRestores), reload_ok \in BOOLEAN : ApplyReload(a, reload_ok)
    \/ \E config \in Configs, how \in [KnownParams -> {"system", "failed"}] :
          ApplyPostgresConfiguration(config, how)
    \/ \E log_id \in 1..(MaxTunes + MaxRestores) : RestoreQuery(log_id)
    \/ \E c \in 1..(MaxRestores + MaxRefusals), names_ok \in BOOLEAN : RestoreApply(c, names_ok)
    \/ \E c \in 1..(MaxRestores + MaxRefusals), commit_ok \in BOOLEAN :
          RestoreMark(c, commit_ok)

AdminSpec == InitAdmin /\ [][NextAdmin]_vars

-----------------------------------------------------------------------------
(* The strategies table: create, update, delete and fork requests *)

MaxStrategies == 2
MaxRequests == 3

Users == {"u1", "u2"}

StrategyRow(owner_id, name, description, strategy_json) ==
    [owner_id |-> owner_id, name |-> name, description |-> description,
     strategy_json |-> strategy_json]

\* Definitions that reach the handlers (the request schema has let them through):
\* two that parse_strategy accepts, one it rejects with StrategyExecutionError and one
\* on which int() raises ValueError.
StoreDefinition(factor, top_n, frequency) ==
    [market |-> JAbsent, min_market_cap |-> JAbsent, factors |-> <<factor>>,
     top_n |-> top_n, weight_method |-> "EQUAL", frequency |-> frequency]
StoreDefinitions ==
    { StoreDefinition(Factor("PER", "desc", Rat(1), ""), JAbsent, "Monthly"),
      StoreDefinition(Factor("PER", "desc", Rat(1), ""), JInt(2), "weekly"),
      StoreDefinition(Factor("ML_MODEL", "desc", Rat(1), "not-a-uuid"), JInt(2), "Monthly"),
      StoreDefinition(Factor("PER", "desc", Rat(1), ""), JStr("abc"), "Monthly") }

\* Bodies of StrategyCreate and StrategyUpdate (None: JNull).
CreateInputs ==
    [name : {JStr("alpha")}, description : {JNull}, strategy_json : StoreDefinitions]
UpdateInputs ==
    [name : {JNull, JStr("beta")}, description : {JNull, JStr("second")},
     strategy_json : StoreDefinitions \cup {JNull}]

\* HTTP status of a call that parse_strategy ended: 422 for StrategyExecutionError (the
\* handlers catch it), 500 for any other exception (it leaves the handler as it is).
StatusOf(exc) == IF exc = "StrategyExecutionError" THEN 422 ELSE 500

\* create_strategy: the row it commits, if any.
create_strategy(owner_id, strategy_in) ==
    LET res == parse_strategy(strategy_in.strategy_json)
    IN  IF res.exc # "none"
        THEN [status |-> StatusOf(res.exc), committed |-> FALSE,
              row |-> StrategyRow(owner_id, strategy_in.name, strategy_in.description,
                                  strategy_in.strategy_json)]
        ELSE [status |-> 200, committed |-> TRUE,
              row |-> StrategyRow(owner_id, strategy_in.name, strategy_in.description,
                                  strategy_in.strategy_json)]

\* The same handler with the commit ahead of line 53 (and of the exit that skips it).
update_strategy_commits_first(strategy, strategy_in) ==
    LET named     == IF strategy_in.name # JNull
                     THEN [strategy EXCEPT !.name = strategy_in.name] ELSE strategy
        described == IF strategy_in.description # JNull
                     THEN [named EXCEPT !.description = strategy_in.description] ELSE named
    IN  IF strategy_in.strategy_json = JNull
        THEN [status |-> 200, committed |-> TRUE, row |-> described]
        ELSE LET res == parse_strategy(strategy_in.strategy_json)
             IN  IF res.exc # "none"
                 THEN [status |-> StatusOf(res.exc), committed |-> TRUE, row |-> described]
                 ELSE [status |-> 200, committed |-> TRUE,
                       row |-> [described EXCEPT
                                   !.strategy_json = strategy_in.strategy_json]]

\* update_strategy on the object the session loaded: row is that object when the handler
\* ends, committed tells whether db.commit() was reached (otherwise get_db closes the
\* session and the changes of the object are dropped).
update_strategy(strategy, strategy_in) ==
    LET named     == IF strategy_in.name # JNull
                     THEN [strategy EXCEPT !.name = strategy_in.name] ELSE strategy
        described == IF strategy_in.description # JNull
                     THEN [named EXCEPT !.description = strategy_in.description] ELSE named
    IN  IF strategy_in.strategy_json = JNull
        THEN [status |-> 200, committed |-> TRUE, row |-> described]
        ELSE LET res == parse_strategy(strategy_in.strategy_json)
             IN  IF res.exc # "none"
                 THEN [status |-> StatusOf(res.exc), committed |-> FALSE, row |-> described]
                 ELSE [status |-> 200, committed |-> TRUE,
                       row |-> [described EXCEPT
                                   !.strategy_json = strategy_in.strategy_json]]

Response(op, id, user, input, status, row) ==
    [op |-> op, id |-> id, user |-> user, input |-> input, status |-> status,
     session_row |-> row]

\* A deleted row keeps its position, so that the position of a row stays its id.
NoRow == [deleted |-> TRUE]
RowExists(table, id) == id \in 1..Len(table) /\ table[id] # NoRow

\* A handler that has not answered yet: the request, where it stands, the object of its
\* session and the columns of it that differ from what was loaded (the flush writes these).
Call(op, id, user, input, at, row, dirty) ==
    [op |-> op, id |-> id, user |-> user, input |-> input, pc |-> at, row |-> row,
     dirty |-> dirty]

\* Rows that handlers between their SELECT and their commit are about to insert.
Inserting == Cardinality({h \in 1..MaxHandlers :
                             handlers[h] # Idle /\ handlers[h].op = "fork"
                             /\ handlers[h].pc = "commit"})

Columns == {"name", "description", "strategy_json"}

\* POST /strategies, lines 26-38: parse_strategy, db.add and db.commit(); a commit that
\* raises leaves the handler as a server error without a row.
CreateStrategy(h, user, strategy_in, commit_ok) ==
    /\ pc = "store"
    /\ handlers[h] = Idle
    /\ started < MaxRequests
    /\ started' = started + 1
    /\ Len(strategies) + Inserting < MaxStrategies
    /\ LET res == create_strategy(user, strategy_in)
           id  == Len(strategies) + 1
       IN  IF ~res.committed
           THEN /\ response' = Response("create", id, user, strategy_in, res.status, res.row)
                /\ UNCHANGED <<strategies, handlers>>
           ELSE IF ~commit_ok
           THEN /\ response' = Response("create", id, user, strategy_in, 500, res.row)
                /\ UNCHANGED <<strategies, handlers>>
           ELSE /\ strategies' = Append(strategies, res.row)
                /\ handlers' = [handlers EXCEPT ![h] =
                      Call("create", id, user, strategy_in, "refresh", res.row, {})]
                /\ UNCHANGED response
    /\ UNCHANGED <<pc, simVars, err, request, sql, tuning_logs, pg_settings, restores, applies,
                   db_model, spec, ml_session, universe_scored, ranked, metrics, persisted, stored,
                   stages>>

\* db.refresh(strategy) and return (lines 39-40, 98-99, 137-138): the row is read again
\* in a new transaction; a row deleted since the commit raises InvalidRequestError.
RefreshStrategy(h) ==
    /\ pc = "store"
    /\ UNCHANGED started
    /\ handlers[h] # Idle
    /\ handlers[h].pc = "refresh"
    /\ LET c == handlers[h]
       IN  response' = IF RowExists(strategies, c.id)
                       THEN Response(c.op, c.id, c.user, c.input, 200, strategies[c.id])
                       ELSE Response(c.op, c.id, c.user, c.input, 500, c.row)
    /\ handlers' = [handlers EXCEPT ![h] = Idle]
    /\ UNCHANGED <<pc, simVars, err, request, sql, tuning_logs, pg_settings, restores, applies,
                   strategies, db_model, spec, ml_session, universe_scored, ranked, metrics,
                   persisted, stored, stages>>

\* PUT /strategies/{strategy_id}, lines 78-95: the row is loaded, the fields of the
\* request are assigned to it and the definition is parsed; a rejected definition ends
\* the handler here (get_db closes the session and the assignments are dropped).
UpdateStrategy(h, user, strategy_id, strategy_in) ==
    /\ pc = "store"
    /\ handlers[h] = Idle
    /\ started < MaxRequests
    /\ started' = started + 1
    /\ IF ~RowExists(strategies, strategy_id) \/ strategies[strategy_id].owner_id # user
       THEN /\ response' = Response("update", strategy_id, user, strategy_in, 404, <<>>)
            /\ UNCHANGED handlers
       ELSE LET strategy == strategies[strategy_id]
                res      == update_strategy(strategy, strategy_in)
            IN  IF ~res.committed
                THEN /\ response' = Response("update", strategy_id, user, strategy_in,
                                             res.status, res.row)
                     /\ UNCHANGED handlers
                ELSE /\ handlers' = [handlers EXCEPT ![h] =
                           Call("update", strategy_id, user, strategy_in, "commit", res.row,
                                {col \in Columns : res.row[col] # strategy[col]})]
                     /\ UNCHANGED response
    /\ UNCHANGED <<pc, simVars, err, request, sql, tuning_logs, pg_settings, restores, applies,
                   strategies, db_model, spec, ml_session, universe_scored, ranked, metrics,
                   persisted, stored, stages>>

\* PUT /strategies/{strategy_id}, line 97: db.commit() writes the changed columns of the
\* row; it raises when the commit fails or when the UPDATE finds no row (deleted since).
UpdateCommit(h, commit_ok) ==
    /\ pc = "store"
    /\ UNCHANGED started
    /\ handlers[h] # Idle
    /\ handlers[h].op = "update" /\ handlers[h].pc = "commit"
    /\ LET c == handlers[h]
       IN  IF ~commit_ok \/ (c.dirty # {} /\ ~RowExists(strategies, c.id))
           THEN /\ response' = Response("update", c.id, c.user, c.input, 500, c.row)
                /\ handlers' = [handlers EXCEPT ![h] = Idle]
                /\ UNCHANGED strategies
           ELSE /\ strategies' =
                      IF c.dirty = {} THEN strategies
                      ELSE [strategies EXCEPT ![c.id] =
                               [col \in DOMAIN strategies[c.id] |->
                                   IF col \in c.dirty THEN c.row[col]
                                   ELSE strategies[c.id][col]]]
                /\ handlers' = [handlers EXCEPT ![h].pc = "refresh"]
                /\ UNCHANGED response
    /\ UNCHANGED <<pc, simVars, err, request, sql, tuning_logs, pg_settings, restores, applies,
                   db_model, spec, ml_session, universe_scored, ranked, metrics, persisted, stored,
                   stages>>

\* DELETE /strategies/{strategy_id}, lines 108-115: the row is loaded and marked deleted.
DeleteStrategy(h, user, strategy_id) ==
    /\ pc = "store"
    /\ handlers[h] = Idle
    /\ started < MaxRequests
    /\ started' = started + 1
    /\ IF ~RowExists(strategies, strategy_id) \/ strategies[strategy_id].owner_id # user
       THEN /\ response' = Response("delete", strategy_id, user, <<>>, 404, <<>>)
            /\ UNCHANGED handlers
       ELSE /\ handlers' = [handlers EXCEPT ![h] =
                  Call("delete", strategy_id, user, <<>>, "commit",
                       strategies[strategy_id], {})]
            /\ UNCHANGED response
    /\ UNCHANGED <<pc, simVars, err, request, sql, tuning_logs, pg_settings, restores, applies,
                   strategies, db_model, spec, ml_session, universe_scored, ranked, metrics,
                   persisted, stored, stages>>

\* DELETE /strategies/{strategy_id}, line 116: db.commit() removes the row (a row that
\* is gone already gives a warning only) and the handler answers 204.
DeleteCommit(h, commit_ok) ==
    /\ pc = "store"
    /\ UNCHANGED started
    /\ handlers[h] # Idle
    /\ handlers[h].op = "delete" /\ handlers[h].pc = "commit"
    /\ LET c == handlers[h]
       IN  /\ strategies' = IF commit_ok THEN [strategies EXCEPT ![c.id] = NoRow]
                            ELSE strategies
           /\ response' = Response("delete", c.id, c.user, <<>>,
                                   IF commit_ok THEN 204 ELSE 500, <<>>)
    /\ handlers' = [handlers EXCEPT ![h] = Idle]
    /\ UNCHANGED <<pc, simVars, err, request, sql, tuning_logs, pg_settings, restores, applies,
                   db_model, spec, ml_session, universe_scored, ranked, metrics, persisted, stored,
                   stages>>

\* POST /strategies/fork, lines 125-135: the source is loaded (whoever owns it) and the
\* copy is built and added to the session.
ForkStrategy(h, user, source_id) ==
    /\ pc = "store"
    /\ handlers[h] = Idle
    /\ started < MaxRequests
    /\ started' = started + 1
    /\ Len(strategies) + Inserting < MaxStrategies
    /\ IF ~RowExists(strategies, source_id)
       THEN /\ response' = Response("fork", source_id, user, <<>>, 404, <<>>)
            /\ UNCHANGED handlers
       ELSE LET source == strategies[source_id]
                new_strategy == StrategyRow(user, JStr(source.name.text \o " (forked)"),
                                            source.description, source.strategy_json)
            IN  /\ handlers' = [handlers EXCEPT ![h] =
                      Call("fork", source_id, user, <<>>, "commit", new_strategy, {})]
                /\ UNCHANGED response
    /\ UNCHANGED <<pc, simVars, err, request, sql, tuning_logs, pg_settings, restores, applies,
                   strategies, db_model, spec, ml_session, universe_scored, ranked, metrics,
                   persisted, stored, stages>>

\* POST /strategies/fork, line 136: db.commit() inserts the copy.
ForkCommit(h, commit_ok) ==
    /\ pc = "store"
    /\ UNCHANGED started
    /\ handlers[h] # Idle
    /\ handlers[h].op = "fork" /\ handlers[h].pc = "commit"
    /\ LET c == handlers[h]
       IN  IF ~commit_ok
           THEN /\ response' = Response("fork", c.id, c.user, <<>>, 500, c.row)
                /\ handlers' = [handlers EXCEPT ![h] = Idle]
                /\ UNCHANGED strategies
           ELSE /\ strategies' = Append(strategies, c.row)
                /\ handlers' = [handlers EXCEPT ![h] =
                      [c EXCEPT !.id = Len(strategies) + 1, !.pc = "refresh"]]
                /\ UNCHANGED response
    /\ UNCHANGED <<pc, simVars, err, request, sql, tuning_logs, pg_settings, restores, applies,
                   db_model, spec, ml_session, universe_scored, ranked, metrics, persisted, stored,
                   stages>>

InitStore ==
    /\ pc = "store"
    /\ PipeIdle
    /\ prices = NoPrices
    /\ allocations = <<>>
    /\ alloc_order = <<>>
    /\ initial_capital = Rat(1)
    /\ SimIdle

NextStore ==
    \/ \E h \in 1..MaxHandlers, user \in Users, strategy_in \in CreateInputs,
          commit_ok \in BOOLEAN : CreateStrategy(h, user, strategy_in, commit_ok)
    \/ \E h \in 1..MaxHandlers, user \in Users, strategy_id \in 1..MaxStrategies,
          strategy_in \in UpdateInputs : UpdateStrategy(h, user, strategy_id, strategy_in)
    \/ \E h \in 1..MaxHandlers, commit_ok \in BOOLEAN : UpdateCommit(h, commit_ok)
    \/ \E h \in 1..MaxHandlers, user \in Users, strategy_id \in 1..MaxStrategies :
          DeleteStrategy(h, user, strategy_id)
    \/ \E h \in 1..MaxHandlers, commit_ok \in BOOLEAN : DeleteCommit(h, commit_ok)
    \/ \E h \in 1..MaxHandlers, user \in Users, source_id \in 1..MaxStrategies :
          ForkStrategy(h, user, source_id)
    \/ \E h \in 1..MaxHandlers, commit_ok \in BOOLEAN : ForkCommit(h, commit_ok)
    \/ \E h \in 1..MaxHandlers : RefreshStrategy(h)

StoreSpec == InitStore /\ [][NextStore]_vars

\* C30: every definition in the strategies table is one parse_strategy accepts, and no
\* step of a create or update request whose definition it rejects changes the table
\* (name, description and definition of every row included), whatever name and
\* description the request carries: neither the step that answers it nor any step of
\* a handler still at work on it.
Rejected(definition) == definition # JNull /\ parse_strategy(definition).exc # "none"

WorksOnRejected(c) ==
    /\ c # Idle
    /\ c.op \in {"create", "update"}
    /\ Rejected(c.input.strategy_json)

C30_StoredOnlyIfAccepted ==
    [][/\ \A i \in 1..Len(strategies') :
             strategies'[i] # NoRow =>
                parse_strategy(strategies'[i].strategy_json).exc = "none"
       /\ (/\ response' # response
           /\ response'.op \in {"create", "update"}
           /\ Rejected(response'.input.strategy_json))
             => /\ strategies' = strategies
                /\ response'.status \in {404, 422, 500}
       /\ \A h \in 1..MaxHandlers :
             (handlers'[h] # handlers[h]
              /\ (WorksOnRejected(handlers[h]) \/ WorksOnRejected(handlers'[h])))
                => strategies' = strategies]_vars

C30_Witness ==
    /\ response.op = "update"
    /\ response.status = 422
    /\ Rejected(response.input.strategy_json)
    /\ response.input.name # JNull
    /\ response.input.description # JNull
    /\ response.session_row.name = response.input.name
    /\ RowExists(strategies, response.id)
    /\ strategies[response.id].name # response.input.name
    /\ strategies[response.id].description # response.input.description

\* C29: once restore_db_configuration has returned for a log, the log is marked reverted
\* and every call that starts afterwards for it raises 'Already reverted', and a call for
\* an id without a row raises 'Log not found'; a call that raised applies no parameter,
\* adds no tuning log and never goes on.
RestoreCompleted(log_id) ==
    \E c \in 1..Len(restores) : restores[c].log_id = log_id /\ restores[c].pc = "returned"

AllCompletedMarked ==
    \A c \in 1..Len(restores) :
        restores[c].pc = "returned" =>
            /\ restores[c].log_id \in 1..Len(tuning_logs)
            /\ tuning_logs[restores[c].log_id].is_reverted

RestoreStarts == Len(restores') = Len(restores) + 1

Started == restores'[Len(restores')]

C29_RevertedAtMostOnce ==
    [][/\ AllCompletedMarked'
       /\ (RestoreStarts /\ RestoreCompleted(Started.log_id)) =>
             /\ Started.pc = "raised"
             /\ Started.msg = "Already reverted"
             /\ UNCHANGED <<tuning_logs, pg_settings, applies>>
       /\ (RestoreStarts /\ Started.log_id \notin 1..Len(tuning_logs)) =>
             /\ Started.pc = "raised"
             /\ Started.msg = "Log not found"
             /\ UNCHANGED <<tuning_logs, pg_settings, applies>>
       /\ \A c \in 1..Len(restores) :
             restores[c].pc = "raised" =>
                /\ restores'[c] = restores[c]
                /\ restores[c].msg \in {"Already reverted", "Log not found"} =>
                      /\ restores[c].status = ""
                      /\ \A a \in 1..Len(applies') : applies'[a].caller # c]_vars

C29_Witness ==
    /\ \E c, d \in 1..Len(restores) :
          /\ c < d
          /\ restores[c].log_id = restores[d].log_id
          /\ restores[c].pc = "returned"
          /\ restores[d].msg = "Already reverted"
    /\ \E c \in 1..Len(restores) : restores[c].msg = "Log not found"
    /\ pg_settings # DefaultSettings

-----------------------------------------------------------------------------
(* Properties of the equity simulator *)

\* First position of idx whose date is strictly after d (0: none).
FirstAfter(idx, d) ==
    IF \E i \in 1..Len(idx) : idx[i] > d
    THEN CHOOSE i \in 1..Len(idx) : idx[i] > d /\ \A j \in 1..Len(idx) : idx[j] > d => i <= j
    ELSE 0

Restrict(f, S) == [x \in S |-> f[x]]

\* C1: an allocation decided on rebalance date D is registered only for a
\* pricing date strictly after D, the holdings it produces exist only after a
\* pricing date strictly after D has been handled, and every equity point is
\* computed from holdings whose allocation was decided strictly before the
\* point's date; for every pricing date T <= D the equity point of T and the
\* holdings after T are those of the same call without the allocation of D.
C1_ExecutionLagSafety ==
    /\ \A T \in DOMAIN tplus1_allocs : tplus1_allocs[T] < T
    /\ heldFrom # 0 => (dayPos >= 1 /\ heldFrom < prices.idx[dayPos])
    /\ \A i \in 1..Len(equity_curve) :
          basis[i] # 0 => basis[i] < equity_curve[i].date
    /\ pc = "simulated" =>
          LET n    == Len(prices.idx)
              with == SimState(prices, allocations, initial_capital, n)
          IN  \A D \in DOMAIN allocations :
                  LET without == SimState(prices, Restrict(allocations, DOMAIN allocations \ {D}),
                                          initial_capital, n)
                  IN  \A k \in 1..n :
                          prices.idx[k] <= D =>
                              /\ equity_curve[k] = without.curve[k]
                              /\ with.held[k] = without.held[k]

\* An allocation has taken effect and has changed the equity of a later date.
C1_Witness ==
    /\ pc = "simulated"
    /\ \E i \in 1..Len(equity_curve) :
          basis[i] # 0 /\ equity_curve[i].equity # initial_capital

\* C2: every rebalance date D that has a pricing date strictly after it is
\* registered, when the mapping loop handles it, for exactly the first pricing
\* date strictly after D.
C2_ExecutionLagExact ==
    [][ (pc = "map" /\ mapped < Len(AllocKeys) /\ mapped' = mapped + 1) =>
          LET D == AllocKeys[mapped + 1]
              f == FirstAfter(prices.idx, D)
          IN  f # 0 => /\ prices.idx[f] \in DOMAIN tplus1_allocs'
                       /\ tplus1_allocs'[prices.idx[f]] = D ]_vars

\* C3: an allocation whose rebalance date has no pricing date strictly after
\* it is registered for no date, never becomes the source of the holdings, and
\* the returned curve equals the curve of the same call without it.
C3_NoLaterDateNeverApplied ==
    \A D \in DOMAIN allocations :
        FirstAfter(prices.idx, D) = 0 =>
            /\ \A T \in DOMAIN tplus1_allocs : tplus1_allocs[T] # D
            /\ heldFrom # D
            /\ pc = "simulated" =>
                 equity_curve = SimulateEquityCurve(
                     prices, Restrict(allocations, DOMAIN allocations \ {D}), initial_capital)

\* A finished run with an allocation decided on or after the last pricing
\* date, next to another allocation that did take effect.
C3_Witness ==
    /\ pc = "simulated"
    /\ Len(prices.idx) >= 2
    /\ heldFrom # 0
    /\ \E D \in DOMAIN allocations : FirstAfter(prices.idx, D) = 0

\* C5: right after the rebalance of an effective date T the holdings contain
\* only tickers of the new allocation and, unless everything is kept as cash,
\* are worth, at T's prices, the equity recorded for T.
C5_RebalanceConservesValue ==
    (pc \in {"loop", "simulated"} /\ dayPos >= 1
        /\ prices.idx[dayPos] \in DOMAIN tplus1_allocs) =>
        LET T    == prices.idx[dayPos]
            snap == allocations[tplus1_allocs[T]]
        IN  /\ DOMAIN current_shares \subseteq {snap[i].ticker : i \in 1..Len(snap)}
            /\ \/ DOMAIN current_shares = {}
               \/ REq(MarkToMarket(current_shares, prices, T), equity_curve[dayPos].equity)

\* C6: the curve has one point per pricing date handled, in index order, and
\* every point up to and including the first effective date (every point, if
\* there is none) equals the initial capital.
C6_CurveCoversPricingDates ==
    /\ Len(equity_curve) = dayPos
    /\ pc = "simulated" => dayPos = Len(prices.idx)
    /\ \A i \in 1..Len(equity_curve) :
          /\ equity_curve[i].date = prices.idx[i]
          /\ i > 1 => equity_curve[i - 1].date < equity_curve[i].date
          /\ (pc # "map" /\ \A T \in DOMAIN tplus1_allocs : equity_curve[i].date <= T)
                => equity_curve[i].equity = initial_capital

\* A finished run whose first effective date is not the last pricing date and
\* whose equity moves afterwards.
C6_Witness ==
    /\ pc = "simulated"
    /\ DOMAIN tplus1_allocs # {}
    /\ \E i \in 1..Len(equity_curve) :
          /\ \E T \in DOMAIN tplus1_allocs : T < equity_curve[i].date
          /\ equity_curve[i].equity # initial_capital
    /\ \E i \in 2..Len(equity_curve) :
          \A T \in DOMAIN tplus1_allocs : equity_curve[i].date <= T

-----------------------------------------------------------------------------
(* Properties of the allocation builder *)

\* Python's sum() over the target weights of a frame: NaN propagates.
RECURSIVE WeightSum(_, _)
WeightSum(snap, n) ==
    IF n = 0 THEN Rat(0) ELSE RAdd(snap[n].target_weight, WeightSum(snap, n - 1))

\* C4: in the dict returned by _build_allocations the target weights of every
\* rebalance date sum to 1 and the frame has at most top_n rows.
C4_WeightsSumToOne ==
    pc = "prices" =>
        \A d \in DOMAIN allocations :
            /\ REq(WeightSum(allocations[d], Len(allocations[d])), Rat(1))
            /\ Len(allocations[d]) <= spec.top_n

\* The calendar periods of the year: months 1..12, quarters 1..4.
Periods(frequency) == IF frequency = "monthly" THEN 1..12 ELSE 1..4

\* C16: the rebalance dates (the keys of the returned dict) hold, for every
\* month (or quarter) with a date in the data, exactly one date of that period,
\* the latest one present, and no date of a period without data.
C16_RebalanceDatesLatestPerPeriod ==
    pc = "prices" =>
        \A p \in Periods(spec.frequency) :
            LET present == {d \in FrameDates(ranked) : Period(d, spec.frequency) = p}
                chosen  == {d \in DOMAIN allocations : Period(d, spec.frequency) = p}
            IN  IF present = {} THEN chosen = {}
                ELSE /\ Cardinality(chosen) = 1
                     /\ chosen \subseteq present
                     /\ \A d \in chosen : \A e \in present : e <= d

\* A period with several dates next to a period with one date.
C16_Witness ==
    /\ pc = "prices"
    /\ \E d, e \in FrameDates(ranked) :
          d < e /\ Period(d, spec.frequency) = Period(e, spec.frequency)
    /\ Cardinality(DOMAIN allocations) >= 2

\* The rows of the scored frame on date d.
CrossSection(d) == {r \in ranked : r.event_date = d}

Selected(d) == {allocations[d][i].ticker : i \in 1..Len(allocations[d])}

\* The row of the scored frame behind row i of the allocation of date d.
SourceRow(d, i) == CHOOSE r \in CrossSection(d) : r.ticker = allocations[d][i].ticker

\* C17: a non-empty scored frame never makes the builder fail; every
\* rebalance date gets min(top_n, rows of the date) distinct tickers of the
\* date, and no row left out has a strictly higher score than a selected row
\* (nor a score at all when a selected row has none).
C17_TopNSelection ==
    /\ (pc = "raised" /\ err = "StrategyExecutionError") => ranked = {}
    /\ pc = "prices" =>
          \A d \in DOMAIN allocations :
              LET rows == CrossSection(d)
                  k    == IF spec.top_n < Cardinality(rows) THEN spec.top_n
                          ELSE Cardinality(rows)
              IN  /\ Len(allocations[d]) = k
                  /\ Cardinality(Selected(d)) = k
                  /\ Selected(d) \subseteq {r.ticker : r \in rows}
                  /\ \A r, q \in rows :
                        (r.ticker \notin Selected(d) /\ q.ticker \in Selected(d))
                            => /\ ~RLt(q.final_score, r.final_score)
                               /\ IsNaN(q.final_score) => IsNaN(r.final_score)

\* One date has more rows than top_n and the strictly better row is chosen,
\* another date has no more rows than top_n and all of them are chosen.
C17_Witness ==
    /\ pc = "prices"
    /\ \E d \in DOMAIN allocations :
          /\ Cardinality(CrossSection(d)) > spec.top_n
          /\ \E r, q \in CrossSection(d) :
                /\ q.ticker \in Selected(d) /\ r.ticker \notin Selected(d)
                /\ RLt(r.final_score, q.final_score)
    /\ \E d \in DOMAIN allocations :
          /\ Cardinality(CrossSection(d)) <= spec.top_n
          /\ Len(allocations[d]) = Cardinality(CrossSection(d))

\* Sum of the selected rows' market caps, each clipped at 0, missing ones skipped.
RECURSIVE ClippedCapSum(_)
ClippedCapSum(rows) ==
    IF rows = {} THEN Rat(0)
    ELSE LET r == CHOOSE r \in rows : TRUE
             c == r.market_cap
             rest == ClippedCapSum(rows \ {r})
         IN  IF IsNaN(c) \/ RLt(c, Rat(0)) THEN rest ELSE RAdd(c, rest)

SelectedRows(d) == {r \in CrossSection(d) : r.ticker \in Selected(d)}

\* C18: with the market-cap method, a rebalance date whose selected rows have
\* a clipped cap sum <= 0 gives every selected ticker the weight 1/count.
C18_NonPositiveCapsEqualWeight ==
    (pc = "prices" /\ spec.weight_method = "market_cap") =>
        \A d \in DOMAIN allocations :
            RLe(ClippedCapSum(SelectedRows(d)), Rat(0)) =>
                \A i \in 1..Len(allocations[d]) :
                    allocations[d][i].target_weight = Frac(1, Len(allocations[d]))

\* Two selected rows, one with a negative and one with a zero market cap.
C18_Witness ==
    /\ pc = "prices"
    /\ spec.weight_method = "market_cap"
    /\ \E d \in DOMAIN allocations :
          /\ Len(allocations[d]) = 2
          /\ \E r, q \in SelectedRows(d) :
                RLt(r.market_cap, Rat(0)) /\ REq(q.market_cap, Rat(0))

\* C28: for a scored frame with rows _build_allocations never raises; the
\* dict it returns has exactly the rebalance dates of the frame as keys and
\* every allocation has at least one row. 'Rebalancing produced no
\* allocations' is raised only for a frame without rows.
C28_OneAllocationPerRebalanceDate ==
    /\ ranked # {} => pc # "raised"
    /\ (pc = "raised" /\ err = "StrategyExecutionError") => ranked = {}
    /\ pc = "prices" =>
          /\ DOMAIN allocations = Range(DetermineRebalancingDates(ranked, spec.frequency))
          /\ \A d \in DOMAIN allocations : Len(allocations[d]) >= 1

\* Two rebalance dates have an allocation, one of them with no scored row.
C28_Witness ==
    /\ pc = "prices"
    /\ Cardinality(DOMAIN allocations) >= 2
    /\ \E d \in DOMAIN allocations : \A r \in CrossSection(d) : IsNaN(r.final_score)
    /\ \E d \in DOMAIN allocations : \E r \in CrossSection(d) : ~IsNaN(r.final_score)

\* Ticker symbols in ascending order.
TickerBefore(a, b) == a = "A" /\ b = "B"

\* Two rows with the same (present) final_score.
SameScore(r, q) ==
    ~IsNaN(r.final_score) /\ ~IsNaN(q.final_score) /\ REq(r.final_score, q.final_score)

\* C14: rows of equal final_score are ranked by ticker ascending: in the
\* allocation of a rebalance date a tied pair appears in ticker order, and when
\* a tie straddles the top_n boundary the ticker that comes first is the one
\* selected.
C14_TiesInTickerOrder ==
    pc = "prices" =>
        \A d \in DOMAIN allocations :
            /\ \A i, j \in 1..Len(allocations[d]) :
                  (i < j /\ SameScore(SourceRow(d, i), SourceRow(d, j)))
                      => TickerBefore(allocations[d][i].ticker, allocations[d][j].ticker)
            /\ \A r, q \in CrossSection(d) :
                  (q.ticker \in Selected(d) /\ r.ticker \notin Selected(d) /\ SameScore(r, q))
                      => TickerBefore(q.ticker, r.ticker)

\* C25: a step of the simulator changes the holdings only when it handles a
\* pricing date that is an effective date, every other step leaves them as they
\* are; and when the holdings are non-empty as a date is handled, the equity
\* recorded for the date is the sum over the held tickers of shares times the
\* date's price.
C25_HoldingsChangeOnlyAtEffectiveDates ==
    [][ /\ current_shares' # current_shares =>
              /\ pc = "loop" /\ dayPos' = dayPos + 1
              /\ prices.idx[dayPos'] \in DOMAIN tplus1_allocs
        /\ (dayPos' = dayPos + 1 /\ DOMAIN current_shares # {}) =>
              /\ Len(equity_curve') = dayPos'
              /\ equity_curve'[dayPos'].equity =
                    MarkToMarket(current_shares, prices, prices.idx[dayPos'])
      ]_vars

\* A date that is not an effective date has been handled with both tickers
\* held; the holdings are those of the date before and the equity, the value of
\* the holdings at the date's prices, has moved.
C25_Witness ==
    /\ pc = "loop"
    /\ dayPos >= 2
    /\ prices.idx[dayPos] \notin DOMAIN tplus1_allocs
    /\ DOMAIN current_shares = Tickers
    /\ basis[dayPos] # 0
    /\ equity_curve[dayPos].equity = MarkToMarket(current_shares, prices, prices.idx[dayPos])
    /\ ~IsNaN(equity_curve[dayPos].equity)
    /\ equity_curve[dayPos].equity # equity_curve[dayPos - 1].equity

-----------------------------------------------------------------------------
(* Properties of execute_strategy *)

Completed(stage) == stage \in Range(stages)
Ended == pc \in {"returned", "raised"}

\* C8: a call whose fetch returned no rows ends with a
\* StrategyExecutionError and hands nothing to the sink.
C8_EmptyUniverseRaises ==
    (Ended /\ Completed("fetch") /\ universe_scored = {}) =>
        (pc = "raised" /\ err = "StrategyExecutionError" /\ persisted = <<>>)

FullRun ==
    /\ Completed("fetch") /\ Completed("rank") /\ Completed("allocate")
    /\ Completed("prices") /\ Completed("simulate") /\ Completed("metrics")
    /\ Completed("adapter")

\* What a full run hands over: the curve of the whole price index and its metrics.
HandsOverFullResult ==
    /\ persisted[1].equity_curve = SimulateEquityCurve(prices, allocations, initial_capital)
    /\ Len(persisted[1].equity_curve) = Len(prices.idx)
    /\ persisted[1].metrics = ComputeMetrics(persisted[1].equity_curve, initial_capital)

\* C9: the sink is invoked at most once, only as the last step of a run in
\* which fetch, scoring, allocation, simulation and metrics completed, with the
\* complete curve and metrics of that run; never in a call that a stage ends in
\* an error (the sink's own db.commit() or db.refresh() raising is the one
\* error that can follow the hand-over).
C9_PersistOnlyAfterFullRun ==
    /\ Len(persisted) <= 1
    /\ persisted # <<>> =>
          /\ FullRun /\ HandsOverFullResult
          /\ \/ pc = "returned" /\ stages[Len(stages)] = "persist"
             \/ pc = "raised" /\ err = "SQLAlchemyError"
    /\ (pc = "raised" /\ err # "SQLAlchemyError") => persisted = <<>>

\* C10: a parsed strategy with a non-zero-weight ML_MODEL factor whose model
\* has no record or no loadable artifact never gets its query built, and the
\* call ends with a StrategyExecutionError.
C10_UnresolvedModelFailsFast ==
    (Completed("parse") /\ HasMl(spec.factors)
        /\ db_model \in {"absent", "missing_file", "unloadable"}) =>
        /\ ~Completed("build_sql")
        /\ pc = "raised" => err = "StrategyExecutionError"

\* The model row and its artifact as they are stored, whatever sessions earlier
\* runs have left in the process: a file removed after it was loaded is a missing file.
AsStored(model) == IF model = "cached_deleted" THEN "missing_file" ELSE model

\* C15: two runs on the same strategy, period, capital, data snapshot and scorer
\* end alike, and no step depends on state left by an earlier run: when a call
\* has resolved the model of its strategy, a run that finds the same model row
\* and the same artifact, in a process with any other history, resolves it too
\* and scores with the same session.
C15_TwoRunsAgree ==
    (Completed("resolve") /\ NeedsModel(spec.factors)) =>
        \A other \in ModelStates :
            AsStored(other) = AsStored(db_model) =>
                /\ ResolveOutcome(other).err = "none"
                /\ ResolveOutcome(other).session = ml_session

\* C26: the simulator maps different rebalance dates to different effective
\* pricing dates, and in the order of the rebalance dates: of two rebalance
\* dates that both receive an effective date, the later one receives the later
\* effective date.
C26_EffectiveDatesInjective ==
    pc = "simulate" =>
        \A d, e \in DOMAIN allocations :
            (d < e /\ EffectivePos(prices.idx, d) # 0 /\ EffectivePos(prices.idx, e) # 0)
                => EffectivePos(prices.idx, d) < EffectivePos(prices.idx, e)

\* C27: in the pipeline every equity value is a number >= 0 and every share
\* count the simulator holds on any date is a number.
C27_EquityFiniteNonNegative ==
    pc = "metrics" =>
        LET run == SimState(prices, allocations, initial_capital, Len(prices.idx))
        IN  /\ \A k \in 1..Len(equity_curve) : RLe(Rat(0), equity_curve[k].equity)
            /\ \A k \in 1..Len(run.held) :
                  \A t \in DOMAIN run.held[k] : ~IsNaN(run.held[k][t])

\* max(market_cap, 0); a missing cap stays missing
CapAtLeastZero(c) == IF IsNaN(c) THEN NaN ELSE IF RLt(c, Rat(0)) THEN Rat(0) ELSE c

\* C19: with the market-cap method and a positive sum of clipped caps on a
\* rebalance date, every selected ticker's weight is its cap clipped at 0 over
\* that sum: 0 for a non-positive cap, 1 for the ticker holding all of the
\* positive cap; and after the rebalance that applies the allocation the
\* simulator holds no position in a ticker of weight 0.
C19_MarketCapWeights ==
    (pc = "metrics" /\ spec.weight_method = "market_cap") =>
        LET keys == AllocKeys
            tp   == MapAll(prices.idx, keys, Len(keys))
            run  == SimState(prices, allocations, initial_capital, Len(prices.idx))
        IN  \A d \in DOMAIN allocations :
                LET total == ClippedCapSum(SelectedRows(d))
                IN  RLt(Rat(0), total) =>
                      \A i \in 1..Len(allocations[d]) :
                          LET cap == SourceRow(d, i).market_cap
                              w   == allocations[d][i].target_weight
                          IN  /\ w = RDiv(CapAtLeastZero(cap), total)
                              /\ RLe(cap, Rat(0)) => w = Rat(0)
                              /\ REq(cap, total) => w = Rat(1)
                              /\ w = Rat(0) =>
                                    \A k \in 1..Len(prices.idx) :
                                        (prices.idx[k] \in DOMAIN tp /\ tp[prices.idx[k]] = d)
                                            => allocations[d][i].ticker \notin DOMAIN run.held[k]

\* A simulated run in which an allocation with weights 1 and 0 (a positive
\* and a negative market cap) was applied and left a position in one ticker.
C19_Witness ==
    /\ pc = "metrics"
    /\ spec.weight_method = "market_cap"
    /\ LET keys == AllocKeys
           tp   == MapAll(prices.idx, keys, Len(keys))
           run  == SimState(prices, allocations, initial_capital, Len(prices.idx))
       IN  \E k \in 1..Len(prices.idx) :
               /\ prices.idx[k] \in DOMAIN tp
               /\ LET d == tp[prices.idx[k]]
                  IN  /\ Len(allocations[d]) = 2
                      /\ \E i \in 1..2 :
                            /\ allocations[d][i].target_weight = Rat(0)
                            /\ RLt(SourceRow(d, i).market_cap, Rat(0))
                      /\ Cardinality(DOMAIN run.held[k]) = 1

\* C11: when the strategy's model is needed and the scorer is unavailable (the
\* model row has no file path, or its file is missing), the call is not ended
\* by the scorer's error, and once the ranking step has run every row's
\* final_score is the one the data provider returned.
C11_ScorerUnavailableNotFatal ==
    (Completed("parse") /\ NeedsModel(spec.factors)
        /\ db_model \in {"empty_path", "missing_file"}) =>
        /\ err # "ONNXModelError"
        /\ Completed("rank") => ranked = universe_scored

-----------------------------------------------------------------------------
(* Properties of the scored query *)

\* The base table behind a scored frame.
BaseOf(frame) ==
    {[event_date |-> r.event_date, ticker |-> r.ticker, per |-> r.per, pbr |-> r.pbr]
        : r \in frame}

\* Every row of date d has a value in col and all the values are equal.
ZeroVariance(frame, d, col) ==
    \A r, q \in {x \in frame : x.event_date = d} :
        ~IsNaN(r[col]) /\ r[col] = q[col]

\* C12: on a date on which the raw column of every active factor has zero
\* variance (all values equal, or a single row), every factor standardizes to
\* 0 and the final_score of every row of the date is 0.
C12_ZeroVarianceScoresZero ==
    pc = "branch" =>
        \A d \in FrameDates(universe_scored) :
            (\A i \in 1..Len(NonMl(spec.factors)) :
                ZeroVariance(universe_scored, d, FactorColumn(NonMl(spec.factors)[i].name)))
            => \A r \in universe_scored :
                   r.event_date = d => r.final_score = Surd(Rat(0), Rat(0))

\* The factors of a strategy without those of negative weight.
WithoutNegative(factors) == SelectSeq(factors, LAMBDA f : ~RLt(f.weight, Rat(0)))

\* C13: the scored frame of a strategy equals, row by row, the scored frame of
\* the same strategy without its factors of negative weight.
C13_NegativeWeightIgnored ==
    pc = "branch" =>
        universe_scored = ScoredQuery(BaseOf(universe_scored), WithoutNegative(spec.factors))

\* p + q sqrt 2 > 0
SurdPositive(p, q) ==
    \/ ~RLt(p, Rat(0)) /\ ~RLt(q, Rat(0)) /\ (RLt(Rat(0), p) \/ RLt(Rat(0), q))
    \/ RLt(Rat(0), p) /\ RLt(q, Rat(0)) /\ RLt(RMul(Rat(2), RMul(q, q)), RMul(p, p))
    \/ RLt(p, Rat(0)) /\ RLt(Rat(0), q) /\ RLt(RMul(p, p), RMul(Rat(2), RMul(q, q)))

\* x < y for two scores; never true when one of them is NULL
ScoreLess(x, y) ==
    /\ ~IsNull(x) /\ ~IsNull(y)
    /\ SurdPositive(RAdd(y.rat, RMul(Rat(-1), x.rat)), RAdd(y.root2, RMul(Rat(-1), x.root2)))

\* The factors of positive weight.
PositiveFactors(factors) == {i \in 1..Len(factors) : RLt(Rat(0), factors[i].weight)}

\* C23: when exactly one factor has a positive weight, then on every date on
\* which two rows differ in that factor's raw value, the row of the lower value
\* has the strictly higher final_score if the direction is asc and the
\* strictly lower one if it is desc.
C23_DirectionOrdersScores ==
    (pc = "branch" /\ Cardinality(PositiveFactors(spec.factors)) = 1) =>
        LET f   == spec.factors[CHOOSE i \in PositiveFactors(spec.factors) : TRUE]
            col == FactorColumn(f.name)
        IN  \A r, q \in universe_scored :
                (r.event_date = q.event_date /\ RLt(r[col], q[col])) =>
                    IF f.direction = "asc"
                    THEN ScoreLess(q.final_score, r.final_score)
                    ELSE ScoreLess(r.final_score, q.final_score)

\* The ordering of C23 for the strategies without a factor of negative weight.
C23_OrderedWithoutNegativeWeights ==
    WithoutNegative(spec.factors) = spec.factors => C23_DirectionOrdersScores

-----------------------------------------------------------------------------
(* Properties of the request built by _build_scored_sql *)

\* The factors that are not the model, have a non-zero weight and map to a
\* ratio derived from the financial statements.
ActiveRatioFactors ==
    {i \in 1..Len(spec.factors) :
        /\ spec.factors[i].name # "ML_MODEL"
        /\ spec.factors[i].weight # Rat(0)
        /\ ColumnOf(spec.factors[i].name) \in DOMAIN FINANCIAL_COMPONENTS}

\* C24: the built request has the financial-statement join exactly when some
\* non-model factor of non-zero weight maps to a statement-derived ratio; the
\* join computes exactly the ratios of those factors, each once, and filters
\* on exactly the line items those ratios need; without such a factor there is
\* no join, no ratio and no filter.
C24_JoinOnlyForActiveRatios ==
    pc = "fetch" =>
        LET ratios == {ColumnOf(spec.factors[i].name) : i \in ActiveRatioFactors}
        IN  /\ sql.join <=> ActiveRatioFactors # {}
            /\ Range(sql.aggs) = ratios
            /\ Len(sql.aggs) = Cardinality(ratios)
            /\ sql.item_filters = UNION {FINANCIAL_COMPONENTS[c] : c \in ratios}

\* A request with the join for one ratio, built for a strategy that also names
\* another ratio with weight 0, which the join does not compute.
C24_Witness ==
    /\ pc = "fetch"
    /\ sql.join
    /\ Len(sql.aggs) = 1
    /\ \E i \in 1..Len(spec.factors) :
          /\ spec.factors[i].weight = Rat(0)
          /\ ColumnOf(spec.factors[i].name) \in DOMAIN FINANCIAL_COMPONENTS
          /\ ColumnOf(spec.factors[i].name) \notin Range(sql.aggs)

-----------------------------------------------------------------------------
(* Properties of the metrics *)

\* C20: for a curve of no or one point _compute_metrics returns without an
\* error and total_return, cagr, volatility, sharpe and max_drawdown are all 0,
\* whatever the initial capital.
C20_ShortCurveZeroMetrics ==
    (Len(equity_curve) < 2 /\ pc # "metrics") =>
        /\ pc = "adapter"
        /\ err = "none"
        /\ DOMAIN metrics = {"total_return", "cagr", "volatility", "sharpe", "max_drawdown"}
        /\ \A k \in DOMAIN metrics : metrics[k] = Rat(0)

\* The metrics of a one-point curve whose equity differs from a zero initial capital.
C20_Witness ==
    /\ pc = "adapter"
    /\ Len(equity_curve) = 1
    /\ initial_capital = Rat(0)
    /\ equity_curve[1].equity = Rat(1)

-----------------------------------------------------------------------------
(* Properties of parse_strategy *)

\* C21: every StrategySpec parse_strategy returns has a market of the enum, no
\* min_market_cap or one that is a number >= 0, a non-empty factor list whose
\* names are in the factor vocabulary or ML_MODEL with a parsed model id, known
\* directions, a positive integer top_n, a known weight method and frequency;
\* and a definition with a negative min_market_cap is rejected with the
\* validation error.
C21_ParsedSpecWellFormed ==
    /\ pc = "parsed" =>
          /\ spec.market \in VALID_MARKETS
          /\ spec.min_market_cap.kind = "float" => RLe(Rat(0), spec.min_market_cap.num)
          /\ spec.factors # <<>>
          /\ \A i \in 1..Len(spec.factors) :
                LET f == spec.factors[i]
                IN  /\ f.name \in FACTOR_COLUMN_MAP \cup {"ML_MODEL"}
                    /\ f.name = "ML_MODEL" => f.model_id \in ValidUuids
                    /\ f.direction \in VALID_DIRECTIONS
          /\ spec.top_n \in Nat \ {0}
          /\ spec.weight_method \in VALID_WEIGHT_METHODS
          /\ spec.frequency \in VALID_FREQUENCIES
    /\ (pc # "parse" /\ RLt(ToFloat(request.strategy_json.min_market_cap).val, Rat(0)))
          => (pc = "raised" /\ err = "StrategyExecutionError")

\* A supplied top_n that is zero, negative, fractional or not a number.
NotPositiveInteger(v) ==
    \/ v.kind \in {"null", "list"}
    \/ v.kind = "str" /\ ~IsFloatText(v.text)
    \/ v.kind \in {"int", "float"} /\ (RLe(v.num, Rat(0)) \/ v.num[2] # 1)
    \/ v.kind = "str" /\ IsFloatText(v.text)
          /\ (RLe(NumberOfText(v.text), Rat(0)) \/ NumberOfText(v.text)[2] # 1)

\* C22: parse_strategy uses top_n = 30 when portfolio.top_n is absent, and a
\* supplied top_n that is not a positive integer makes it fail with a
\* StrategyExecutionError: never another exception, never a returned spec.
C22_TopNDefaultAndValidation ==
    pc # "parse" =>
        LET v == request.strategy_json.top_n
        IN  /\ (v.kind = "absent" /\ pc = "parsed") => spec.top_n = 30
            /\ (v.kind # "absent" /\ NotPositiveInteger(v))
                  => (pc = "raised" /\ err = "StrategyExecutionError")

=============================================================================
